---- MODULE Spec2Model ----
(***************************************************************************)
(* MeetSpot: the location-resolution and venue-search engine of            *)
(* CafeRecommender (src/app/tool/meetspot_recommender.py).                 *)
(*                                                                         *)
(* Python strings are sequences of glyphs.  A glyph is one TLA+ string:    *)
(*   "R" = the word 餐厅 (restaurant)   "C" = 咖啡馆 (cafe)                   *)
(*   "M" = 商场 (mall)                  "F" = 美食 (food)                     *)
(*   "G" = any other venue word (e.g. 健身房)                                *)
(*   "_" = one blank                   "W" = the suffix （扩大范围）          *)
(* asyncio runs one coroutine at a time and switches only at an await, so  *)
(* every action below is the code between two awaits of one coroutine.     *)
(***************************************************************************)
EXTENDS Integers, Sequences, FiniteSets, TLC

(***************************************************************************)
(* Program constants.                                                      *)
(***************************************************************************)
GEOCODE_CACHE_MAX == 30
POI_CACHE_MAX == 15
max_retries == 3
SearchRadius == 5000
WideRadius == 50000
MAX_CONCURRENT_REQUESTS == 3

(***************************************************************************)
(* Bounds of the model.                                                    *)
(***************************************************************************)
MaxTasks == 2
\* the HTTP requests that arrive at the API
MaxApiRequests == 4

(***************************************************************************)
(* Strings.                                                                *)
(***************************************************************************)
None == <<"<None>">>

RECURSIVE SplitFrom(_, _, _)
SplitFrom(s, i, cur) ==
    IF i > Len(s)
    THEN IF cur = <<>> THEN <<>> ELSE <<cur>>
    ELSE IF s[i] = "_"
         THEN (IF cur = <<>> THEN <<>> ELSE <<cur>>) \o SplitFrom(s, i + 1, <<>>)
         ELSE SplitFrom(s, i + 1, Append(cur, s[i]))

\* keywords.split(): the maximal runs of non-blank glyphs, in order
Split(s) == SplitFrom(s, 1, <<>>)

\* [kw.strip() for kw in keywords.split() if kw.strip()]
KeywordsList(keywords) == Split(keywords)

fallback_categories == << <<"R">>, <<"C">>, <<"M">>, <<"F">> >>

WideKeyword == <<"R", "W">>

(***************************************************************************)
(* The two caches: Python dicts, which iterate in insertion order.  A      *)
(* cache is the sequence of its <<key, value>> entries, oldest first.      *)
(***************************************************************************)
CacheKeys(c) == {c[i].key : i \in 1..Len(c)}

CacheHas(c, k) == k \in CacheKeys(c)

CacheGet(c, k) == c[CHOOSE i \in 1..Len(c) : c[i].key = k].val

\* self.cache[k] = v : an existing key keeps its position, a new key goes last
DictSet(c, k, v) ==
    IF CacheHas(c, k)
    THEN [i \in 1..Len(c) |-> IF c[i].key = k THEN [key |-> k, val |-> v] ELSE c[i]]
    ELSE Append(c, [key |-> k, val |-> v])

\* the eviction with the test off by one: a full cache is not trimmed
EvictOldest_Late(c, max) == IF Len(c) > max THEN Tail(c) ELSE c

\* the eviction taking the entry inserted last instead of the oldest
EvictOldest_Newest(c, max) == IF Len(c) >= max THEN SubSeq(c, 1, Len(c) - 1) ELSE c

\* if len(cache) >= MAX: del cache[next(iter(cache))]
EvictOldest(c, max) == IF Len(c) >= max THEN Tail(c) ELSE c

\* the assignment made before the eviction check
CachePut_InsertFirst(c, max, k, v) == EvictOldest(DictSet(c, k, v), max)

\* the eviction check followed by the assignment
CachePut(c, max, k, v) == DictSet(EvictOldest(c, max), k, v)

(***************************************************************************)
(* The upstream provider's world.  All places lie on one meridian, where   *)
(* the great-circle midpoint of two points is the mean of their latitudes. *)
(***************************************************************************)
A1 == <<"a">>
A2 == <<"b">>
BD == <<"bei", "da">>
BDFull == <<"Beijing", "Haidian", "bei", "jing", "da", "xue">>

NoneResult == [ok |-> FALSE, location |-> <<0, 0>>, city |-> ""]

\* more addresses: AC and AF are in Beijing, AD and SH far away in Shanghai,
\* AE in Shanghai where AC and AF are, BC is AC with its city written out
AC == <<"c">>
AD == <<"d">>
AE == <<"e">>
AF == <<"f">>
BC == <<"Beijing", "c">>
SH == <<"Shanghai", "s">>

\* "Beijing" in front of AD names a place further away still
WorldLat(address) ==
    IF address = A1 THEN 38
    ELSE IF address \in {A2, AD, SH} THEN 42
    ELSE IF address = <<"Beijing">> \o AD THEN 46
    ELSE 40

WorldCity(address) ==
    IF address \in {A2, AD, AE, SH} THEN "Shanghai" ELSE "Beijing"

\* what _geocode_via_poi returns for a usable place/text answer
PoiTextResult(address) ==
    [ok |-> TRUE, location |-> <<116, WorldLat(address)>>,
     city |-> WorldCity(address)]

\* data["geocodes"][0] of a successful geocode/geo answer
GeocodeResult(address) ==
    [ok |-> TRUE, location |-> <<116, WorldLat(address)>>,
     city |-> WorldCity(address)]

RECURSIVE StripLeft(_)
StripLeft(s) == IF s # <<>> /\ Head(s) = "_" THEN StripLeft(Tail(s)) ELSE s

RECURSIVE StripRight(_)
StripRight(s) ==
    IF s # <<>> /\ s[Len(s)] = "_" THEN StripRight(SubSeq(s, 1, Len(s) - 1)) ELSE s

\* _enhance_address: strip, then the alias table
_enhance_address(address) ==
    IF address = <<>> THEN address
    ELSE LET normalized == StripLeft(StripRight(address))
         IN  IF normalized = BD THEN BDFull ELSE normalized

\* _calculate_center_point on points of one meridian
_calculate_center_point(coordinates) ==
    IF Len(coordinates) = 1 THEN coordinates[1]
    ELSE IF Len(coordinates) = 2
         THEN <<coordinates[1][1], (coordinates[1][2] + coordinates[2][2]) \div 2>>
         ELSE <<coordinates[1][1],
                (coordinates[1][2] + coordinates[2][2] + coordinates[3][2]) \div 3>>

(***************************************************************************)
(* Venues, and what the provider may answer to one place/around request.   *)
(***************************************************************************)
\* a place of an answer.  Names are sequences of glyphs; rating is p["rating"]
\* in tenths; score is the total the five calculators of lines 2080-2104 give
\* the place; penalty is _diversity_penalty, 0 while the key is not set
V1 == [name |-> <<"n1">>, location |-> <<116, 40>>, address |-> "addr1",
       src |-> <<>>, rating |-> 40, score |-> 60, penalty |-> 0]
V1b == [name |-> <<"n1">>, location |-> <<116, 40>>, address |-> "addr1-alt",
        src |-> <<>>, rating |-> 40, score |-> 60, penalty |-> 0]
V2 == [name |-> <<"n2">>, location |-> <<116, 41>>, address |-> "addr2",
       src |-> <<>>, rating |-> 43, score |-> 50, penalty |-> 0]

PoiLists == {<<>>, <<V1>>, <<V1b, V2>>}

\* place/around answers: a non-200 status or data["status"] != "1" ("bad"),
\* a well-formed answer carrying pois ("ok"), or a failure that raises
\* (connection error, malformed JSON, missing "status")
PoiResponses ==
    {[kind |-> "bad", pois |-> <<>>], [kind |-> "raise", pois |-> <<>>]}
    \cup {[kind |-> "ok", pois |-> l] : l \in PoiLists}

\* place['_source_keyword'] = keyword, for every place of the list
Tag(places, keyword) ==
    [i \in 1..Len(places) |-> [places[i] EXCEPT !.src = keyword]]

(***************************************************************************)
(* Inputs of one request.                                                  *)
(***************************************************************************)
LocationInputs == {<<>>, <<A1>>, <<A1, A2>>, <<BD, A1>>}

KeywordInputs ==
    {<<"G">>, <<"R">>, <<"G", "_", "R">>, <<"C", "_", "C">>, <<"M", "_", "R">>}

PlaceTypeInputs == {"", "050000"}

\* the calls of execute explored: every location list with one plain search
\* (addresses are geocoded), every keywords / place_type pair on coordinates
\* the caller resolved beforehand (pre, the list pre_resolved_coords, empty
\* when there is none), and one call with two coordinates for one location
\* min_rating (in tenths) and max_distance have their defaults but in the
\* last calls
RequestInputs ==
    {[locations |-> l, keywords |-> <<"G">>, place_type |-> "050000", pre |-> <<>>,
      min_rating |-> 0, max_distance |-> 100000] :
        l \in LocationInputs}
    \cup {[locations |-> <<A1, A2>>, keywords |-> k, place_type |-> t,
            pre |-> << <<116, 38>>, <<116, 42>> >>,
            min_rating |-> 0, max_distance |-> 100000] :
        k \in KeywordInputs, t \in PlaceTypeInputs}
    \cup {[locations |-> <<A1>>, keywords |-> <<"G">>, place_type |-> "050000",
            pre |-> << <<116, 36>>, <<116, 44>> >>,
            min_rating |-> 0, max_distance |-> 100000]}
    \cup {[locations |-> <<A1, A2>>, keywords |-> k, place_type |-> "050000",
            pre |-> << <<116, 38>>, <<116, 42>> >>,
            min_rating |-> f[1], max_distance |-> f[2]] :
        k \in {<<"G">>, <<"G", "_", "R">>},
        f \in {<<45, 100000>>, <<0, 50000>>}}

(***************************************************************************)
(* State.                                                                  *)
(***************************************************************************)
VARIABLES
    api_key,          \* whether an AMap key is configured
    geocode_cache,    \* self.geocode_cache
    poi_cache,        \* self.poi_cache
    pc,               \* where execute is
    req,              \* the arguments of the running execute call
    gtasks,           \* the geocode_with_delay coroutines of the gather
    stasks,           \* the _search_pois calls execute is awaiting
    center_point,
    searched_places,
    fallback_used,
    fallback_keyword,
    fbIdx,            \* position of the rung-3 loop in fallback_categories
    searchLog,        \* every _search_pois call issued by this request
    rankInput,        \* whether _rank_places was called, and on which places
    pageMade,         \* whether _generate_html_page was called
    output,           \* the ToolResult execute returned
    geocode_raw_results,  \* what the gather of the geocode coroutines returned
    updated_results,  \* what _smart_city_inference has built of its answer
    reresolved,       \* the positions _smart_city_inference geocoded again
    helper,           \* a helper called on its own: arguments, position, result
    permits,          \* _request_semaphore._value
    waiters,          \* _request_semaphore._waiters, oldest first
    rq                \* the HTTP requests: where each handler is

vars == <<api_key, geocode_cache, poi_cache, pc, req, gtasks, stasks,
          center_point, searched_places, fallback_used, fallback_keyword,
          fbIdx, searchLog, rankInput, pageMade, output, geocode_raw_results,
          updated_results, reresolved, helper, permits, waiters, rq>>

\* what no step of execute touches: the configured key, the API, and the
\* helpers called on their own
Fixed == <<api_key, permits, waiters, rq, helper>>

\* no helper is being called on its own
NoCall == [fn |-> "none"]

\* what only the city guard of execute writes, besides
Quiet == <<Fixed, updated_results, reresolved>>

\* a request that has not arrived yet
NewRq == [at |-> "new", entry |-> "none", waited |-> FALSE]

NoOutput ==
    [kind |-> "none", address |-> <<>>, center |-> <<0, 0>>, places |-> <<>>,
     fallback_used |-> FALSE, fallback_keyword |-> None, notice |-> None]

NotRanked == [called |-> FALSE, places |-> <<>>]

NoReq == [locations |-> <<>>, keywords |-> <<>>, place_type |-> "", pre |-> <<>>,
          min_rating |-> 0, max_distance |-> 100000]

FillerAddress(i) == [j \in 1..i |-> "x"]

\* a cache after n earlier insertions; the latest one is an address (a
\* search) that the requests explored here ask for again
FillerGeocodeCache(n) ==
    [i \in 1..n |->
        IF i = n THEN [key |-> A1, val |-> GeocodeResult(A1)]
        ELSE [key |-> FillerAddress(i), val |-> GeocodeResult(FillerAddress(i))]]

FillerPoiCache(n) ==
    [i \in 1..n |->
        IF i = n THEN [key |-> << <<116, 40>>, <<"G">>, SearchRadius, "" >>, val |-> <<V1>>]
        ELSE [key |-> << <<0, i>>, <<"C">>, SearchRadius, "" >>, val |-> <<>>]]

\* how full the caches are when the request arrives: empty (as constructed),
\* one below capacity, or at capacity after earlier requests
CacheFills == {0, 1, 2}

FillCount(fill, max) == IF fill = 0 THEN 0 ELSE IF fill = 1 THEN max - 1 ELSE max

Init ==
    /\ api_key \in BOOLEAN
    /\ \E fill \in CacheFills :
          /\ geocode_cache = FillerGeocodeCache(FillCount(fill, GEOCODE_CACHE_MAX))
          /\ poi_cache = FillerPoiCache(FillCount(fill, POI_CACHE_MAX))
    /\ pc = "idle"
    /\ req = NoReq
    /\ gtasks = <<>>
    /\ stasks = <<>>
    /\ center_point = <<0, 0>>
    /\ searched_places = <<>>
    /\ fallback_used = FALSE
    /\ fallback_keyword = None
    /\ fbIdx = 0
    /\ searchLog = <<>>
    /\ rankInput = NotRanked
    /\ pageMade = FALSE
    /\ output = NoOutput
    /\ geocode_raw_results = <<>>
    /\ updated_results = <<>>
    /\ reresolved = {}
    /\ helper = NoCall
    /\ permits = MAX_CONCURRENT_REQUESTS
    /\ waiters = <<>>
    /\ rq = [id \in 1..MaxApiRequests |-> NewRq]

(***************************************************************************)
(* _search_pois.  Its first segment is the cache lookup; on a miss it      *)
(* awaits the provider, and the answer is handled in its second segment.   *)
(***************************************************************************)
CacheKey(location, keywords, radius, types) == <<location, keywords, radius, types>>

\* the call up to its first await, against cache c; tag is the keyword the
\* search_keyword wrapper marks the places with (<<>> outside the fan-out)
SearchCall(c, location, keywords, radius, types, tag, lidx) ==
    LET key == CacheKey(location, keywords, radius, types)
        hit == CacheHas(c, key)
        got == IF hit THEN CacheGet(c, key) ELSE <<>>
    IN  [key |-> key, tag |-> tag, lidx |-> lidx,
         st |-> IF hit THEN "done" ELSE "http",
         result |-> IF tag # <<>> THEN Tag(got, tag) ELSE got]

\* the cached list is the list the caller marks: the marks show in the cache
CacheAfterCall(c, call) ==
    IF call.st = "done" /\ call.tag # <<>> /\ CacheHas(c, call.key)
    THEN DictSet(c, call.key, call.result)
    ELSE c

\* out and res record how the call ended; after counts the searches of the
\* request that had already returned places when this one was issued
LogEntry(rung, keywords, radius, types) ==
    [rung |-> rung, keywords |-> keywords, radius |-> radius, types |-> types,
     out |-> "pending", res |-> <<>>, after |-> 0]

Outcome(call) ==
    IF call.st = "raised" THEN "raised"
    ELSE IF call.st = "http" THEN "pending"
    ELSE IF call.result = <<>> THEN "empty" ELSE "nonempty"

\* one sequential `await self._search_pois(...)` of execute, up to its await
AwaitSearch(log, location, rung, keywords, radius, types) ==
    LET call == SearchCall(poi_cache, location, keywords, radius, types,
                           <<>>, Len(log) + 1)
    IN  /\ stasks' = <<call>>
        /\ searchLog' = Append(log,
              [LogEntry(rung, keywords, radius, types) EXCEPT
                  !.out = Outcome(call), !.res = call.result,
                  !.after = Cardinality({i \in 1..Len(log) : log[i].out = "nonempty"})])
        /\ poi_cache' = poi_cache

\* the search_keyword coroutines of the gather, each run to its first await
RECURSIVE FanOut(_, _, _, _, _)
FanOut(kws, i, c, location, base) ==
    IF i > Len(kws) THEN [tasks |-> <<>>, cache |-> c]
    ELSE LET call == SearchCall(c, location, kws[i], SearchRadius, "", kws[i], base + i)
             rest == FanOut(kws, i + 1, CacheAfterCall(c, call), location, base)
         IN  [tasks |-> <<call>> \o rest.tasks, cache |-> rest.cache]

FanOutLog(kws, tasks) ==
    [i \in 1..Len(kws) |->
        [LogEntry(1, kws[i], SearchRadius, "") EXCEPT
            !.out = Outcome(tasks[i]), !.res = tasks[i].result,
            !.after = Cardinality({k \in 1..(i - 1) : Outcome(tasks[k]) = "nonempty"})]]

\* the provider answers the request of call i (lines 1327-1342, and the
\* marking of lines 584-589 when the call belongs to the fan-out)
SearchResponse(i, resp) ==
    /\ pc \in {"r1", "r2", "r3", "r4"}
    /\ i \in 1..Len(stasks)
    /\ stasks[i].st = "http"
    /\ LET call == stasks[i]
           pois == IF call.tag # <<>> THEN Tag(resp.pois, call.tag) ELSE resp.pois
           done == IF resp.kind = "raise"
                   THEN [call EXCEPT !.st = "raised"]
                   ELSE IF resp.kind = "bad"
                        THEN [call EXCEPT !.st = "done", !.result = <<>>]
                        ELSE [call EXCEPT !.st = "done", !.result = pois]
       IN  /\ stasks' = [stasks EXCEPT ![i] = done]
           /\ poi_cache' = IF resp.kind = "ok"
                           THEN CachePut(poi_cache, POI_CACHE_MAX, call.key, pois)
                           ELSE poi_cache
           /\ searchLog' = [searchLog EXCEPT ![call.lidx].out = Outcome(done),
                                              ![call.lidx].res = done.result]
    /\ UNCHANGED <<Quiet, geocode_cache, pc, req, gtasks, center_point,
                   searched_places, fallback_used, fallback_keyword, fbIdx,
                   rankInput, pageMade, output, geocode_raw_results>>

(***************************************************************************)
(* execute, from the meeting point on: the search ladder.                  *)
(***************************************************************************)
\* execute without its except clause: the exception reaches the caller
Failed_Escaped == [NoOutput EXCEPT !.kind = "escaped"]

\* except Exception as e: return ToolResult(output=f"推荐失败: {str(e)}")
Failed == [NoOutput EXCEPT !.kind = "failed"]

\* the no-venues text without the search centre
NoVenues_NoCenter(center) == [NoOutput EXCEPT !.kind = "no_venues"]

\* lines 677-682: the no-venues text with the search centre
NoVenues(center) == [NoOutput EXCEPT !.kind = "no_venues", !.center = center]

\* return ToolResult(...): execute is over
Return(out) ==
    /\ pc' = "done"
    /\ output' = out

SearchesOver == \A i \in 1..Len(stasks) : stasks[i].st # "http"

Multi(r) == Len(KeywordsList(r.keywords)) > 1

\* a gather without return_exceptions: one raised search empties the batch
RECURSIVE Merge_FailFast(_, _)
Merge_FailFast(tasks, i) ==
    IF \E k \in 1..Len(tasks) : tasks[k].st = "raised" THEN <<>>
    ELSE IF i > Len(tasks) THEN <<>>
    ELSE tasks[i].result \o Merge_FailFast(tasks, i + 1)

\* results of the gather in task order; a raised search contributes nothing
RECURSIVE Merge(_, _)
Merge(tasks, i) ==
    IF i > Len(tasks) THEN <<>>
    ELSE (IF tasks[i].st = "done" THEN tasks[i].result ELSE <<>>) \o Merge(tasks, i + 1)

\* venues told apart by their name and address
Identifier_ByAddress(place) == <<place.name, place.address>>

\* identifier = f"{name}_{location}"
Identifier(place) == <<place.name, place.location>>

\* the merge without the de-duplication
Unique_Keep(places, i, seen) == places

\* lines 607-617: keep the first place of every (name, location) pair
RECURSIVE Unique(_, _, _)
Unique(places, i, seen) ==
    IF i > Len(places) THEN <<>>
    ELSE IF Identifier(places[i]) \in seen
         THEN Unique(places, i + 1, seen)
         ELSE <<places[i]>> \o Unique(places, i + 1, seen \cup {Identifier(places[i])})

\* lines 563-628: the meeting point, then rung 1 up to its await
StartLadder(r, coordinates) ==
    LET center == _calculate_center_point(coordinates)
        kwl == KeywordsList(r.keywords)
        fan == FanOut(kwl, 1, poi_cache, center, 0)
    IN  /\ center_point' = center
        /\ IF Len(kwl) > 1
           THEN /\ stasks' = fan.tasks
                /\ poi_cache' = fan.cache
                /\ searchLog' = FanOutLog(kwl, fan.tasks)
           ELSE AwaitSearch(<<>>, center, 1, r.keywords, SearchRadius, r.place_type)
        /\ pc' = "r1"
        /\ output' = NoOutput

\* the first category from position `from` on that differs from keywords
NextFallback(keywords, from) ==
    LET ok == {j \in from..Len(fallback_categories) : fallback_categories[j] # keywords}
    IN  IF ok = {} THEN 0 ELSE CHOOSE j \in ok : \A k \in ok : j <= k

Ladder == <<searched_places, fallback_used, fallback_keyword, fbIdx>>

\* what a recommender's execute works on
RecStateOfExecute ==
    <<geocode_cache, poi_cache, pc, req, gtasks, stasks, center_point,
      Ladder, searchLog, rankInput, pageMade, output, geocode_raw_results,
      updated_results, reresolved>>

\* lines 596-641: rung 1 is over; on an empty result rung 2 is issued
Rung1Done ==
    /\ pc = "r1"
    /\ SearchesOver
    /\ IF ~Multi(req) /\ stasks[1].st = "raised"
       THEN /\ Return(Failed)
            /\ UNCHANGED <<stasks, poi_cache, searchLog, Ladder>>
       ELSE LET places == IF Multi(req)
                          THEN Unique(Merge(stasks, 1), 1, {})
                          ELSE stasks[1].result
            IN  /\ searched_places' = places
                /\ UNCHANGED <<fallback_used, fallback_keyword, fbIdx, output>>
                /\ IF places = <<>>
                   THEN /\ pc' = "r2"
                        /\ AwaitSearch(searchLog, center_point, 2, req.keywords,
                                       SearchRadius, "")
                   ELSE /\ pc' = "rank"
                        /\ UNCHANGED <<stasks, poi_cache, searchLog>>
    /\ UNCHANGED <<Quiet, geocode_cache, req, gtasks, center_point,
                   rankInput, pageMade, geocode_raw_results>>

\* lines 636-655: rung 2 is over; on an empty result rung 3 starts
Rung2Done ==
    /\ pc = "r2"
    /\ SearchesOver
    /\ IF stasks[1].st = "raised"
       THEN /\ Return(Failed)
            /\ UNCHANGED <<stasks, poi_cache, searchLog, Ladder>>
       ELSE LET places == stasks[1].result
                j == NextFallback(req.keywords, 1)
            IN  /\ searched_places' = places
                /\ UNCHANGED <<fallback_used, fallback_keyword, output>>
                /\ IF places = <<>>
                   THEN /\ pc' = "r3"
                        /\ fbIdx' = j
                        /\ AwaitSearch(searchLog, center_point, 3,
                                       fallback_categories[j], SearchRadius, "")
                   ELSE /\ pc' = "rank"
                        /\ UNCHANGED <<fbIdx, stasks, poi_cache, searchLog>>
    /\ UNCHANGED <<Quiet, geocode_cache, req, gtasks, center_point,
                   rankInput, pageMade, geocode_raw_results>>

\* lines 648-670: one rung-3 search is over; the loop goes on, or rung 4 starts
Rung3Done ==
    /\ pc = "r3"
    /\ SearchesOver
    /\ IF stasks[1].st = "raised"
       THEN /\ Return(Failed)
            /\ UNCHANGED <<stasks, poi_cache, searchLog, Ladder>>
       ELSE LET places == stasks[1].result
                j == NextFallback(req.keywords, fbIdx + 1)
            IN  /\ searched_places' = places
                /\ UNCHANGED output
                /\ IF places # <<>>
                   THEN /\ fallback_used' = TRUE
                        /\ fallback_keyword' = fallback_categories[fbIdx]
                        /\ pc' = "rank"
                        /\ UNCHANGED <<fbIdx, stasks, poi_cache, searchLog>>
                   ELSE /\ UNCHANGED <<fallback_used, fallback_keyword>>
                        /\ IF j # 0
                           THEN /\ pc' = "r3"
                                /\ fbIdx' = j
                                /\ AwaitSearch(searchLog, center_point, 3,
                                               fallback_categories[j], SearchRadius, "")
                           ELSE /\ pc' = "r4"
                                /\ UNCHANGED fbIdx
                                /\ AwaitSearch(searchLog, center_point, 4,
                                               <<"R">>, WideRadius, "")
    /\ UNCHANGED <<Quiet, geocode_cache, req, gtasks, center_point,
                   rankInput, pageMade, geocode_raw_results>>

\* lines 665-682: rung 4 is over
Rung4Done ==
    /\ pc = "r4"
    /\ SearchesOver
    /\ IF stasks[1].st = "raised"
       THEN /\ Return(Failed)
            /\ UNCHANGED Ladder
       ELSE LET places == stasks[1].result
            IN  /\ searched_places' = places
                /\ UNCHANGED fbIdx
                /\ IF places # <<>>
                   THEN /\ fallback_used' = TRUE
                        /\ fallback_keyword' = WideKeyword
                        /\ pc' = "rank"
                        /\ UNCHANGED output
                   ELSE /\ UNCHANGED <<fallback_used, fallback_keyword>>
                        /\ Return(NoVenues(center_point))
    /\ UNCHANGED <<Quiet, geocode_cache, poi_cache, req, gtasks, stasks,
                   center_point, searchLog, rankInput, pageMade, geocode_raw_results>>

(***************************************************************************)
(* _rank_places.  The five calculators of lines 2080-2104 are not modelled: *)
(* a place comes with the total they give it.                              *)
(***************************************************************************)
Take(s, n) == SubSeq(s, 1, IF Len(s) < n THEN Len(s) ELSE n)

\* metres between two points of the meridian (_calculate_distance)
_calculate_distance(p, q) ==
    LET d == (q[2] - p[2]) * 111000 IN IF d < 0 THEN -d ELSE d

\* the filters let every place through
HardFilter_Off(places, center, min_rating, max_distance) == places

\* lines 2039-2067: the rating filter, then the distance filter
HardFilter(places, center, min_rating, max_distance) ==
    LET rated == IF min_rating > 0
                 THEN SelectSeq(places, LAMBDA x : x.rating >= min_rating)
                 ELSE places
    IN  IF max_distance < 100000
        THEN SelectSeq(rated, LAMBDA x :
                 _calculate_distance(center, x.location) <= max_distance)
        ELSE rated

\* the list as it is, unsorted
SortByScore_Skip(places) == places

\* x behind every place of the sorted list that scores as much or more
RECURSIVE InsertByScore(_, _)
InsertByScore(x, sorted) ==
    IF sorted # <<>> /\ Head(sorted).score >= x.score
    THEN <<Head(sorted)>> \o InsertByScore(x, Tail(sorted))
    ELSE <<x>> \o sorted

\* sorted(places, key=_score, reverse=True): stable, highest score first
RECURSIVE SortByScore(_)
SortByScore(places) ==
    IF places = <<>> THEN <<>>
    ELSE InsertByScore(places[Len(places)],
                       SortByScore(SubSeq(places, 1, Len(places) - 1)))

\* s up to the first glyph g
RECURSIVE CutAt(_, _)
CutAt(s, g) ==
    IF s = <<>> \/ Head(s) = g THEN <<>> ELSE <<Head(s)>> \o CutAt(Tail(s), g)

\* name.split("(")[0].split("（")[0].replace("店", "").replace("分店", ""):
\* "(" is the half-width bracket, "[" the full-width one, "d" the glyph 店;
\* once 店 is gone there is no 分店 left to replace
BrandName(name) ==
    SelectSeq(CutAt(CutAt(name, "("), "["), LAMBDA g : g # "d")

\* seen_brands[brand_name] when the loop is at the i-th place
SeenCount(places, i) ==
    Cardinality({j \in 1..(i - 1) :
        BrandName(places[j].name) = BrandName(places[i].name)})

\* a flat penalty for every later place of a chain
Penalty_Flat(seen_count) == IF seen_count > 0 THEN 5 ELSE 0

\* line 1614: penalty = min(15, seen_count * 5), for seen_count > 0
Penalty(seen_count) ==
    IF seen_count > 0
    THEN (IF seen_count * 5 < 15 THEN seen_count * 5 ELSE 15)
    ELSE 0

\* lines 1586-1619: the later places of a brand lose points
_apply_diversity_adjustment(places) ==
    [i \in 1..Len(places) |->
        LET penalty == Penalty(SeenCount(places, i))
        IN  IF penalty > 0
            THEN [places[i] EXCEPT !.score = places[i].score - penalty,
                                   !.penalty = penalty]
            ELSE places[i]]

\* the keys of by_keyword in the order they were entered
RECURSIVE KeywordOrder(_)
KeywordOrder(places) ==
    IF places = <<>> THEN <<>>
    ELSE LET front == KeywordOrder(SubSeq(places, 1, Len(places) - 1))
             k == places[Len(places)].src
         IN  IF \E i \in 1..Len(front) : front[i] = k THEN front
             ELSE Append(front, k)

\* lines 2153-2155: the first max_per_keyword places of every keyword
RECURSIVE Selected(_, _, _)
Selected(places, keys, max_per_keyword) ==
    IF keys = <<>> THEN <<>>
    ELSE Take(SelectSeq(places, LAMBDA x : x.src = Head(keys)), max_per_keyword)
         \o Selected(places, Tail(keys), max_per_keyword)

\* line 2151: max(2, 8 // len(by_keyword))
MaxPerKeyword(n) == IF 8 \div n > 2 THEN 8 \div n ELSE 2

\* lines 2139-2165: the balanced list of a multi-keyword search
Balanced(ranked_places) ==
    LET by_keyword == KeywordOrder(ranked_places)
    IN  Take(SortByScore(Selected(ranked_places, by_keyword,
                                  MaxPerKeyword(Len(by_keyword)))), 8)

\* line 2139: any(place.get('_source_keyword') for place in ranked_places)
AnySourceKeyword(places) == \E i \in 1..Len(places) : places[i].src # <<>>

_rank_places(places, center, min_rating, max_distance) ==
    LET passing == HardFilter(places, center, min_rating, max_distance)
        ranked_places ==
            SortByScore(_apply_diversity_adjustment(SortByScore(passing)))
    IN  IF passing = <<>> THEN <<>>
        ELSE IF AnySourceKeyword(ranked_places) THEN Balanced(ranked_places)
        ELSE Take(ranked_places, 6)

\* the result text without the notice of lines 3245-3248
_format_result_text_NoNotice(places, used, keyword) ==
    [NoOutput EXCEPT !.kind = "success", !.places = places,
                     !.fallback_used = used, !.fallback_keyword = keyword]

\* _format_result_text: the count, and the notice of lines 3245-3248
_format_result_text(places, used, keyword) ==
    [NoOutput EXCEPT !.kind = "success", !.places = places,
                     !.fallback_used = used, !.fallback_keyword = keyword,
                     !.notice = IF used /\ keyword # None /\ keyword # <<>>
                                THEN keyword ELSE None]

\* lines 684-707: ranking, the page, the result text
RankAndRender(pageOk) ==
    /\ pc = "rank"
    /\ rankInput' = [called |-> TRUE, places |-> searched_places]
    /\ pageMade' = TRUE
    /\ IF pageOk
       THEN Return(_format_result_text(
                       _rank_places(searched_places, center_point,
                                    req.min_rating, req.max_distance),
                       fallback_used, fallback_keyword))
       ELSE Return(Failed)
    /\ UNCHANGED <<Quiet, geocode_cache, poi_cache, req, gtasks, stasks,
                   center_point, Ladder, searchLog, geocode_raw_results>>

(***************************************************************************)
(* _geocode: cache lookup, place/text first, then geocode/geo with up to   *)
(* max_retries attempts.                                                   *)
(***************************************************************************)
GeoResponses == {"non200", "rate_limited", "empty", "ok", "raise"}

\* line 905: the city _geocode hands to _geocode_via_poi
poi_city_hint == ""

\* poi_city is the city parameter of the place/text request the coroutine
\* sent ("" for no city limit), NotSent until it sends one
NotSent == "<not sent>"

NewGeocodeTask(address) ==
    [address |-> address, pc |-> "sleep", attempt |-> 0, delay |-> 0,
     calls |-> 0, last |-> "none", rl |-> FALSE, result |-> NoneResult,
     poi_city |-> NotSent]

\* the handler sleeps with the rate limit treated like any other error
HandlerSleep_Flat(resp, attempt) ==
    IF resp \in {"rate_limited", "raise"} THEN 200 * (attempt + 1) ELSE 0

\* milliseconds slept inside the handler of a failed attempt (0-based),
\* lines 934-936, 946 and 965
HandlerSleep(resp, attempt) ==
    IF resp = "rate_limited" THEN 500 * (attempt + 1)
    ELSE IF resp = "raise" THEN 200 * (attempt + 1)
    ELSE 0

\* milliseconds slept at the top of a retry (0-based attempt), line 926
RetrySleep(attempt) == IF attempt > 0 THEN 200 * attempt ELSE 0

\* the whole pause between a failed attempt and the next request
Backoff(resp, attempt) == HandlerSleep(resp, attempt) + RetrySleep(attempt + 1)

\* whether a failed answer on this (0-based) attempt is followed by another
Retries(resp, attempt) ==
    /\ resp \in {"non200", "rate_limited", "raise"}
    /\ attempt # max_retries - 1

GeoFrame == <<Quiet, poi_cache, pc, req, stasks, center_point, Ladder,
              searchLog, rankInput, pageMade, output, geocode_raw_results>>

\* geocode_with_delay wakes and _geocode runs to its first await
GeocodeBegin(i) ==
    /\ pc \in {"geocoding", "correct"}
    /\ i \in 1..Len(gtasks)
    /\ gtasks[i].pc = "sleep"
    /\ \A j \in 1..(i - 1) : gtasks[j].pc # "sleep"
    /\ LET t == gtasks[i]
       IN  gtasks' = [gtasks EXCEPT ![i] =
              IF CacheHas(geocode_cache, t.address)
              THEN [t EXCEPT !.pc = "done",
                             !.result = CacheGet(geocode_cache, t.address)]
              ELSE [t EXCEPT !.pc = "poi", !.poi_city = poi_city_hint]]
    /\ UNCHANGED <<geocode_cache, GeoFrame>>

\* the place/text answer: a usable place is cached and returned, anything
\* else (lines 784-795, 806-807) starts the first geocode/geo attempt
PoiTextResponse(i, usable) ==
    /\ pc \in {"geocoding", "correct"}
    /\ i \in 1..Len(gtasks)
    /\ gtasks[i].pc = "poi"
    /\ LET t == gtasks[i]
       IN  IF usable
           THEN /\ geocode_cache' = CachePut(geocode_cache, GEOCODE_CACHE_MAX,
                                             t.address, PoiTextResult(t.address))
                /\ gtasks' = [gtasks EXCEPT ![i] =
                      [t EXCEPT !.pc = "done", !.result = PoiTextResult(t.address)]]
           ELSE /\ geocode_cache' = geocode_cache
                /\ gtasks' = [gtasks EXCEPT ![i] =
                      [t EXCEPT !.pc = "geo", !.attempt = 0, !.calls = 1]]
    /\ UNCHANGED GeoFrame

\* the answer to one geocode/geo attempt, lines 929-965
GeoResponse(i, resp) ==
    /\ pc \in {"geocoding", "correct"}
    /\ i \in 1..Len(gtasks)
    /\ gtasks[i].pc = "geo"
    /\ LET t == gtasks[i]
       IN  IF resp = "ok"
           THEN /\ geocode_cache' = CachePut(geocode_cache, GEOCODE_CACHE_MAX,
                                             t.address, GeocodeResult(t.address))
                /\ gtasks' = [gtasks EXCEPT ![i] =
                      [t EXCEPT !.pc = "done", !.last = resp,
                                !.result = GeocodeResult(t.address)]]
           ELSE /\ geocode_cache' = geocode_cache
                /\ gtasks' = [gtasks EXCEPT ![i] =
                      IF Retries(resp, t.attempt)
                      THEN [t EXCEPT !.pc = "backoff", !.last = resp,
                                     !.rl = t.rl \/ resp = "rate_limited",
                                     !.delay = Backoff(resp, t.attempt),
                                     !.attempt = t.attempt + 1]
                      ELSE [t EXCEPT !.pc = "done", !.last = resp,
                                     !.rl = t.rl \/ resp = "rate_limited",
                                     !.result = NoneResult]]
    /\ UNCHANGED GeoFrame

\* the sleeps are over: the next geocode/geo request goes out
BackoffElapsed(i) ==
    /\ pc \in {"geocoding", "correct"}
    /\ i \in 1..Len(gtasks)
    /\ gtasks[i].pc = "backoff"
    /\ gtasks' = [gtasks EXCEPT ![i] =
          [gtasks[i] EXCEPT !.pc = "geo", !.calls = gtasks[i].calls + 1]]
    /\ UNCHANGED <<geocode_cache, GeoFrame>>

(***************************************************************************)
(* The city guard of _smart_city_inference (lines 980-1029).               *)
(***************************************************************************)
city_keywords == <<"Beijing", "Shanghai">>

Contains(s, glyph) == \E i \in 1..Len(s) : s[i] = glyph

VotesFor(locations, city) ==
    Cardinality({i \in 1..Len(locations) :
        /\ locations[i] # <<>>
        /\ \/ Contains(locations[i], city)
           \/ Contains(_enhance_address(locations[i]), city)})

FirstVoter(locations, city) ==
    CHOOSE i \in 1..Len(locations) :
        /\ Contains(locations[i], city) \/ Contains(_enhance_address(locations[i]), city)
        /\ \A j \in 1..(i - 1) :
              ~(Contains(locations[j], city) \/ Contains(_enhance_address(locations[j]), city))

KeywordIndex(city) == CHOOSE k \in 1..Len(city_keywords) : city_keywords[k] = city

\* max(votes, key=votes.get): the most voted city, the earliest entered on a tie
_extract_city_hint(locations) ==
    LET voted == {city_keywords[k] : k \in 1..Len(city_keywords)}
                 \cap {c \in {city_keywords[k] : k \in 1..Len(city_keywords)} :
                          VotesFor(locations, c) > 0}
        Earlier(a, b) ==
            \/ FirstVoter(locations, a) < FirstVoter(locations, b)
            \/ /\ FirstVoter(locations, a) = FirstVoter(locations, b)
               /\ KeywordIndex(a) <= KeywordIndex(b)
    IN  IF voted = {} THEN ""
        ELSE CHOOSE c \in voted : \A d \in voted :
                \/ VotesFor(locations, c) > VotesFor(locations, d)
                \/ VotesFor(locations, c) = VotesFor(locations, d) /\ Earlier(c, d)

CityCount(cities, c) == Cardinality({i \in 1..Len(cities) : cities[i] = c})

FirstIndex(cities, c) == CHOOSE i \in 1..Len(cities) : cities[i] = c /\ \A j \in 1..(i - 1) : cities[j] # c

\* Counter(cities).most_common(): higher count first, first seen first on a tie
MainCity(cities) ==
    CHOOSE c \in {cities[i] : i \in 1..Len(cities)} :
        \A d \in {cities[i] : i \in 1..Len(cities)} :
            \/ CityCount(cities, c) > CityCount(cities, d)
            \/ /\ CityCount(cities, c) = CityCount(cities, d)
               /\ FirstIndex(cities, c) <= FirstIndex(cities, d)

\* the early returns of _smart_city_inference: the results stay as they are
CorrectionSkipped(results, city_hint) ==
    LET cities == [i \in 1..Len(results) |-> results[i].city]
        main == MainCity(cities)
        main_count == CityCount(cities, main)
    IN  \/ Len(results) < 2
        \/ city_hint # "" /\ CityCount(cities, city_hint) < Len(cities)
        \/ \E d \in {cities[i] : i \in 1..Len(cities)} :
              d # main /\ CityCount(cities, d) = main_count
        \/ main_count = Len(cities)
        \/ main_count * 10 < 6 * Len(cities)
        \/ /\ Len(cities) <= 2
           /\ _calculate_distance(results[1].location, results[2].location) > 300000
        \/ city_hint # "" /\ city_hint # main

\* sum(distances): from c to every coordinate but the i-th
RECURSIVE SumDistance(_, _, _, _)
SumDistance(coords, i, c, j) ==
    IF j > Len(coords) THEN 0
    ELSE (IF j = i THEN 0 ELSE _calculate_distance(c, coords[j]))
         + SumDistance(coords, i, c, j + 1)

Coords(results) == [i \in 1..Len(results) |-> results[i].location]

\* line 1046: avg_distance > 100000 and current_city != main_city
NeedsCorrection(results, i) ==
    LET cities == [j \in 1..Len(results) |-> results[j].city]
    IN  /\ SumDistance(Coords(results), i, results[i].location, 1)
              > 100000 * (Len(results) - 1)
        /\ results[i].city # MainCity(cities)

\* the next position from `from` on that the loop geocodes again, 0 for none
NextCorrection(results, from) ==
    LET S == {i \in from..Len(results) : NeedsCorrection(results, i)}
    IN  IF S = {} THEN 0 ELSE CHOOSE i \in S : \A j \in S : i <= j

\* line 1053: new_address = f"{main_city}{location}"
NewAddress(results, location) ==
    <<MainCity([j \in 1..Len(results) |-> results[j].city])>> \o location

\* the items of geocode_results: each result with the string it was asked for
Items(locations, results) ==
    [i \in 1..Len(results) |->
        [original_location |-> locations[i], result |-> results[i]]]

\* every answer of the second geocoding is taken as the better one
Accepts_Any(new_sum, old_sum) == TRUE

\* line 1064: new_avg_distance < avg_distance, both over the same others
Accepts(new_sum, old_sum) == new_sum < old_sum

(***************************************************************************)
(* execute, up to the meeting point.                                       *)
(***************************************************************************)
NotFound(location) ==
    [NoOutput EXCEPT !.kind = IF _enhance_address(location) # location
                              THEN "not_found_alias" ELSE "not_found",
                     !.address = location]

\* execute geocoding whatever coordinates the caller resolved
UsePreResolved_Never(locations, pre) == FALSE

\* line 463: if pre_resolved_coords and len(pre_resolved_coords) == len(locations)
UsePreResolved(locations, pre) == pre # <<>> /\ Len(pre) = Len(locations)

\* lines 443-494: the key check, then the pre-resolved coordinates or the gather
Execute(locations, keywords, place_type, pre, min_rating, max_distance) ==
    /\ pc = "idle"
    /\ geocode_raw_results' = <<>>
    /\ LET r == [locations |-> locations, keywords |-> keywords,
                 place_type |-> place_type, pre |-> pre,
                 min_rating |-> min_rating, max_distance |-> max_distance]
       IN  /\ req' = r
           /\ searched_places' = <<>>
           /\ fallback_used' = FALSE
           /\ fallback_keyword' = None
           /\ fbIdx' = 0
           /\ rankInput' = NotRanked
           /\ pageMade' = FALSE
           /\ IF ~api_key
              THEN /\ Return([NoOutput EXCEPT !.kind = "no_api_key"])
                   /\ gtasks' = <<>>
                   /\ stasks' = <<>>
                   /\ searchLog' = <<>>
                   /\ UNCHANGED <<poi_cache, center_point>>
              ELSE IF UsePreResolved(locations, pre)
                   THEN /\ gtasks' = <<>>
                        /\ StartLadder(r, pre)
                   ELSE /\ gtasks' = [i \in 1..Len(locations) |->
                                         NewGeocodeTask(locations[i])]
                        /\ stasks' = <<>>
                        /\ searchLog' = <<>>
                        /\ pc' = "geocoding"
                        /\ output' = NoOutput
                        /\ UNCHANGED <<poi_cache, center_point>>
    /\ updated_results' = <<>>
    /\ reresolved' = {}
    /\ UNCHANGED <<Fixed, geocode_cache>>

GeocodingOver == \A i \in 1..Len(gtasks) : gtasks[i].pc = "done"

\* lines 494-563: the gather is over; the first unresolved address ends the
\* request, otherwise the city guard, the coordinates and the ladder follow
GeocodingDone ==
    /\ pc = "geocoding"
    /\ GeocodingOver
    /\ LET failed == {i \in 1..Len(gtasks) : ~gtasks[i].result.ok}
           first == CHOOSE i \in failed : \A j \in failed : i <= j
           results == [i \in 1..Len(gtasks) |-> gtasks[i].result]
           hint == _extract_city_hint(req.locations)
       IN  IF failed # {}
           THEN /\ Return(NotFound(req.locations[first]))
                /\ UNCHANGED <<stasks, poi_cache, searchLog, center_point>>
           ELSE IF results = <<>>
                THEN /\ Return([NoOutput EXCEPT !.kind = "no_coords"])
                     /\ UNCHANGED <<stasks, poi_cache, searchLog, center_point>>
                ELSE IF /\ Len(results) > 1
                        /\ ~CorrectionSkipped(results, hint)
                        /\ NextCorrection(results, 1) # 0
                     THEN /\ pc' = "correct"
                          /\ UNCHANGED <<stasks, poi_cache, searchLog,
                                         center_point, output>>
                     ELSE StartLadder(req, Coords(results))
    /\ LET results == [i \in 1..Len(gtasks) |-> gtasks[i].result]
           ok == results # <<>> /\ \A i \in 1..Len(results) : results[i].ok
           k == IF Len(results) > 1 /\ ok
                   /\ ~CorrectionSkipped(results, _extract_city_hint(req.locations))
                THEN NextCorrection(results, 1) ELSE 0
       IN  /\ geocode_raw_results' = results
           /\ updated_results' = IF ok THEN Items(req.locations, results) ELSE <<>>
           /\ reresolved' = IF k = 0 THEN {} ELSE {k}
           /\ gtasks' = IF k = 0 THEN <<>>
                        ELSE <<NewGeocodeTask(NewAddress(results, req.locations[k]))>>
    /\ UNCHANGED <<Fixed, geocode_cache, req, Ladder, rankInput, pageMade>>

\* lines 1031-1076: the second geocoding of an outlier is over; its answer
\* replaces the first one if it lies nearer to the others, and the loop
\* goes on to the next outlier or to its end
CorrectionResolved ==
    /\ pc = "correct"
    /\ GeocodingOver
    /\ LET coords == Coords(geocode_raw_results)
           i == CHOOSE m \in reresolved : \A j \in reresolved : j <= m
           new == gtasks[1].result
           accepted ==
               /\ new.ok
               /\ Accepts(SumDistance(coords, i, new.location, 1),
                          SumDistance(coords, i, coords[i], 1))
           upd == IF accepted
                  THEN [updated_results EXCEPT ![i] =
                           [original_location |-> updated_results[i].original_location,
                            result |-> new]]
                  ELSE updated_results
           k == NextCorrection(geocode_raw_results, i + 1)
       IN  /\ updated_results' = upd
           /\ IF k # 0
              THEN /\ gtasks' = <<NewGeocodeTask(
                                    NewAddress(geocode_raw_results, req.locations[k]))>>
                   /\ reresolved' = reresolved \cup {k}
                   /\ UNCHANGED <<pc, stasks, poi_cache, searchLog,
                                  center_point, output>>
              ELSE /\ gtasks' = <<>>
                   /\ UNCHANGED reresolved
                   /\ StartLadder(req, [j \in 1..Len(upd) |->
                                            upd[j].result.location])
    /\ UNCHANGED <<Fixed, geocode_cache, req, Ladder, rankInput, pageMade,
                   geocode_raw_results>>

\* api/index.py line 762: the next request is served by a CafeRecommender
\* of its own, whose caches are the empty dicts of the default factories
NewRecommender ==
    /\ pc = "done"
    /\ geocode_cache' = <<>>
    /\ poi_cache' = <<>>
    /\ pc' = "idle"
    /\ req' = NoReq
    /\ gtasks' = <<>>
    /\ stasks' = <<>>
    /\ center_point' = <<0, 0>>
    /\ searched_places' = <<>>
    /\ fallback_used' = FALSE
    /\ fallback_keyword' = None
    /\ fbIdx' = 0
    /\ searchLog' = <<>>
    /\ rankInput' = NotRanked
    /\ pageMade' = FALSE
    /\ output' = NoOutput
    /\ geocode_raw_results' = <<>>
    /\ updated_results' = <<>>
    /\ reresolved' = {}
    /\ UNCHANGED Fixed

Next ==
    \/ \E r \in RequestInputs :
          Execute(r.locations, r.keywords, r.place_type, r.pre,
                  r.min_rating, r.max_distance)
    \/ \E i \in 1..MaxTasks : GeocodeBegin(i)
    \/ \E i \in 1..MaxTasks, u \in BOOLEAN : PoiTextResponse(i, u)
    \/ \E i \in 1..MaxTasks, r \in GeoResponses : GeoResponse(i, r)
    \/ \E i \in 1..MaxTasks : BackoffElapsed(i)
    \/ GeocodingDone
    \/ \E i \in 1..MaxTasks, r \in PoiResponses : SearchResponse(i, r)
    \/ Rung1Done
    \/ Rung2Done
    \/ Rung3Done
    \/ Rung4Done
    \/ \E ok \in BOOLEAN : RankAndRender(ok)
    \/ NewRecommender

Spec == Init /\ [][Next]_vars

(***************************************************************************)
(* The city guard at work.  It needs three locations at least: execute is  *)
(* taken up where the gather of three geocode coroutines has returned, in  *)
(* a recommender that has served nothing else.                             *)
(***************************************************************************)
CityLocationInputs ==
    {<<A1, AC, A2>>, <<A1, AC, AD>>, <<AC, AF, AE>>, <<BC, AC, A2>>,
     <<A1, AC, SH>>}

CityInit ==
    /\ api_key = TRUE
    /\ \E l \in CityLocationInputs :
          /\ req = [locations |-> l, keywords |-> <<"G">>,
                    place_type |-> "050000", pre |-> <<>>,
                    min_rating |-> 0, max_distance |-> 100000]
          /\ gtasks = [i \in 1..Len(l) |->
                          [NewGeocodeTask(l[i]) EXCEPT
                              !.pc = "done", !.result = PoiTextResult(l[i])]]
          /\ geocode_cache = [i \in 1..Len(l) |->
                                 [key |-> l[i], val |-> PoiTextResult(l[i])]]
    /\ poi_cache = <<>>
    /\ pc = "geocoding"
    /\ stasks = <<>>
    /\ center_point = <<0, 0>>
    /\ searched_places = <<>>
    /\ fallback_used = FALSE
    /\ fallback_keyword = None
    /\ fbIdx = 0
    /\ searchLog = <<>>
    /\ rankInput = NotRanked
    /\ pageMade = FALSE
    /\ output = NoOutput
    /\ geocode_raw_results = <<>>
    /\ updated_results = <<>>
    /\ reresolved = {}
    /\ helper = NoCall
    /\ permits = MAX_CONCURRENT_REQUESTS
    /\ waiters = <<>>
    /\ rq = [id \in 1..MaxApiRequests |-> NewRq]

CityNext == Next \/ CorrectionResolved

CitySpec == CityInit /\ [][CityNext]_vars

(***************************************************************************)
(* Ranking at work.  It needs more places than the answers above carry:    *)
(* execute is taken up where the searches of rung 1 have returned, with    *)
(* coordinates the caller resolved, in a recommender that has served       *)
(* nothing else.  A search returns a block of places for its keyword.      *)
(***************************************************************************)
RankKeywords == <<"G", "R", "C", "M", "F">>

\* the keywords string of the first n keywords
RECURSIVE JoinKeywords(_)
JoinKeywords(n) ==
    IF n = 1 THEN <<RankKeywords[1]>>
    ELSE JoinKeywords(n - 1) \o <<"_", RankKeywords[n]>>

\* how many places each search returns; one count is a single-keyword search
RankShapes ==
    {<<1>>, <<5>>, <<6>>, <<7>>, <<9>>, <<4, 4>>, <<5, 2>>, <<7, 1>>, <<5, 5>>,
     <<3, 3, 3>>, <<1, 2, 6>>, <<2, 2, 2, 2>>, <<2, 2, 2, 2, 2>>, <<3, 1, 2, 1, 3>>}

Scorings == {"blocks", "interleaved", "flat"}

Brandings == {"distinct", "chain", "pairs"}

\* (min_rating, max_distance) of the request
FilterInputs == {<<0, 100000>>, <<43, 100000>>, <<0, 50000>>}

\* the j-th place of the answer to keyword k
RankVenue(k, j, scoring, branding) ==
    [name |-> (IF branding = "distinct" THEN <<RankKeywords[k], ToString(j)>>
               ELSE IF branding = "chain"
                    THEN (IF j % 2 = 1 THEN <<"S">> ELSE <<"S", "d">>)
                    ELSE <<"b", ToString(j % 4)>>)
              \o <<IF k % 2 = 1 THEN "(" ELSE "[", RankKeywords[k], ToString(j)>>,
     location |-> <<116, IF j % 2 = 1 THEN 40 ELSE 41>>,
     address |-> "addr",
     src |-> <<>>,
     rating |-> 40 + j,
     score |-> IF scoring = "blocks" THEN 100 - 10 * (k - 1) - j
               ELSE IF scoring = "interleaved" THEN 100 - 6 * j - k
               ELSE 50,
     penalty |-> 0]

RankBlock(k, n, scoring, branding) ==
    [j \in 1..n |-> RankVenue(k, j, scoring, branding)]

RECURSIVE PutAll(_, _, _)
PutAll(c, calls, i) ==
    IF i > Len(calls) THEN c
    ELSE PutAll(CachePut(c, POI_CACHE_MAX, calls[i].key, calls[i].result),
                calls, i + 1)

\* the search calls of rung 1, each returned with its block
ReturnedCalls(r, shape, scoring, branding) ==
    LET center == _calculate_center_point(r.pre)
        kwl == KeywordsList(r.keywords)
        calls == IF Len(kwl) > 1
                 THEN FanOut(kwl, 1, <<>>, center, 0).tasks
                 ELSE <<SearchCall(<<>>, center, r.keywords, SearchRadius,
                                   r.place_type, <<>>, 1)>>
    IN  [i \in 1..Len(calls) |->
            [calls[i] EXCEPT
                !.st = "done",
                !.result = IF calls[i].tag # <<>>
                           THEN Tag(RankBlock(i, shape[i], scoring, branding),
                                    calls[i].tag)
                           ELSE RankBlock(i, shape[i], scoring, branding)]]

RankInit ==
    /\ api_key = TRUE
    /\ \E shape \in RankShapes, scoring \in Scorings, branding \in Brandings,
          f \in FilterInputs :
          LET r == [locations |-> <<A1, A2>>,
                    keywords |-> JoinKeywords(Len(shape)),
                    place_type |-> "050000",
                    pre |-> << <<116, 38>>, <<116, 42>> >>,
                    min_rating |-> f[1], max_distance |-> f[2]]
              calls == ReturnedCalls(r, shape, scoring, branding)
          IN  /\ req = r
              /\ stasks = calls
              /\ poi_cache = PutAll(<<>>, calls, 1)
              /\ searchLog =
                    IF Len(shape) > 1
                    THEN FanOutLog(KeywordsList(r.keywords), calls)
                    ELSE <<[LogEntry(1, r.keywords, SearchRadius, r.place_type)
                              EXCEPT !.out = Outcome(calls[1]),
                                     !.res = calls[1].result]>>
              /\ center_point = _calculate_center_point(r.pre)
    /\ geocode_cache = <<>>
    /\ pc = "r1"
    /\ gtasks = <<>>
    /\ searched_places = <<>>
    /\ fallback_used = FALSE
    /\ fallback_keyword = None
    /\ fbIdx = 0
    /\ rankInput = NotRanked
    /\ pageMade = FALSE
    /\ output = NoOutput
    /\ geocode_raw_results = <<>>
    /\ updated_results = <<>>
    /\ reresolved = {}
    /\ helper = NoCall
    /\ permits = MAX_CONCURRENT_REQUESTS
    /\ waiters = <<>>
    /\ rq = [id \in 1..MaxApiRequests |-> NewRq]

RankSpec == RankInit /\ [][Next]_vars

(***************************************************************************)
(* _calculate_requirement_score, called on its own.  Texts are sequences   *)
(* of words; `x in text` is the word occurring in the sequence.  The       *)
(* tables are cut to five requirements, three brands and three types;      *)
(* feature values are in tenths.                                           *)
(***************************************************************************)
Requirements == {"parking", "quiet", "business", "room", "kids"}

\* lines 1479-1489, in the order of the dict
requirement_aliases ==
    <<[req |-> "parking", aliases |-> {"parking", "lot"}],
      [req |-> "quiet", aliases |-> {"quiet", "cozy"}],
      [req |-> "business", aliases |-> {"business", "meeting"}],
      [req |-> "room", aliases |-> {"room", "private"}],
      [req |-> "kids", aliases |-> {"kids", "family"}]>>

\* lines 1492-1517: there is no rule for "kids"
poi_match_rules ==
    [r \in {"parking", "quiet", "business", "room"} |->
        IF r = "parking"
        THEN [check_fields |-> <<"tag", "parking_type">>,
              match_values |-> {"parking", "lot", "free_parking"}]
        ELSE IF r = "quiet"
        THEN [check_fields |-> <<"tag">>,
              match_values |-> {"quiet", "cozy", "elegant"}]
        ELSE IF r = "business"
        THEN [check_fields |-> <<"tag", "type">>,
              match_values |-> {"business", "meeting", "office"}]
        ELSE [check_fields |-> <<"tag">>,
              match_values |-> {"room", "private"}]]

Features(parking, quiet, business, room, kids) ==
    [r \in Requirements |->
        IF r = "parking" THEN parking ELSE IF r = "quiet" THEN quiet
        ELSE IF r = "business" THEN business ELSE IF r = "room" THEN room
        ELSE kids]

\* lines 90-153, in the order of the dict; default is the leading underscore
\* of a place type's key
BRAND_FEATURES ==
    <<[key |-> "Starbucks", default |-> FALSE, features |-> Features(3, 8, 7, 0, 0)],
      [key |-> "Luckin", default |-> FALSE, features |-> Features(3, 4, 4, 0, 0)],
      [key |-> "Haidilao", default |-> FALSE, features |-> Features(8, 2, 0, 9, 9)],
      [key |-> "mall", default |-> TRUE, features |-> Features(9, 0, 0, 0, 7)],
      [key |-> "hotel", default |-> TRUE, features |-> Features(8, 9, 9, 8, 0)],
      [key |-> "KTV", default |-> TRUE, features |-> Features(6, 0, 0, 10, 0)]>>

\* lines 1520-1527: the requirements the text names, in one order
UserReqs(user_requirements) ==
    SelectSeq([i \in 1..Len(requirement_aliases) |-> requirement_aliases[i].req],
              LAMBDA r : \E i \in 1..Len(requirement_aliases) :
                  /\ requirement_aliases[i].req = r
                  /\ \E a \in requirement_aliases[i].aliases :
                        Contains(user_requirements, a))

\* lines 1543-1546: a field of the place carries one of the rule's values
FieldHit(place, req_name) ==
    /\ req_name \in DOMAIN poi_match_rules
    /\ \E f \in 1..Len(poi_match_rules[req_name].check_fields) :
          \E mv \in poi_match_rules[req_name].match_values :
              Contains(place[poi_match_rules[req_name].check_fields[f]], mv)

\* the first entry of BRAND_FEATURES the loop of a layer stops at, 0 for none
FirstEntry(hit(_)) ==
    LET S == {i \in 1..Len(BRAND_FEATURES) : hit(BRAND_FEATURES[i])}
    IN  IF S = {} THEN 0 ELSE CHOOSE i \in S : \A j \in S : i <= j

\* line 1555: if brand in place_name
BrandEntry(place) ==
    FirstEntry(LAMBDA e : ~e.default /\ Contains(place.name, e.key))

\* line 1573: if type_name in place_type or type_name in place_name
TypeEntry(place) ==
    FirstEntry(LAMBDA e : e.default /\ (Contains(place.type, e.key)
                                         \/ Contains(place.name, e.key)))

\* the layers take a requirement again that a layer above has matched
AlreadyMatched_Never(req_name, matched) == FALSE

\* if req_name in matched: continue
AlreadyMatched(req_name, matched) ==
    \E i \in 1..Len(matched) : matched[i] = req_name

\* one layer: every requirement not matched yet that `takes` adds points
\* and its confidence; acc is (total_score, matched, confidence_map)
RECURSIVE Layer(_, _, _, _, _, _)
Layer(acc, user_reqs, i, takes(_), points, confidence) ==
    IF i > Len(user_reqs) THEN acc
    ELSE LET r == user_reqs[i]
         IN  IF ~AlreadyMatched(r, acc.matched) /\ takes(r)
             THEN Layer([total_score |-> acc.total_score + points,
                         matched |-> Append(acc.matched, r),
                         confidence_map |->
                             [q \in DOMAIN acc.confidence_map \cup {r} |->
                                 IF q = r THEN confidence
                                 ELSE acc.confidence_map[q]]],
                        user_reqs, i + 1, takes, points, confidence)
             ELSE Layer(acc, user_reqs, i + 1, takes, points, confidence)

\* lines 1460-1584
_calculate_requirement_score(place, user_requirements) ==
    LET user_reqs == UserReqs(user_requirements)
        empty == [total_score |-> 0, matched |-> <<>>,
                  confidence_map |-> [q \in {} |-> ""]]
        b == BrandEntry(place)
        t == TypeEntry(place)
        layer1 == Layer(empty, user_reqs, 1,
                        LAMBDA r : FieldHit(place, r), 4, "high")
        layer2 == IF b = 0 THEN layer1
                  ELSE Layer(layer1, user_reqs, 1,
                             LAMBDA r : BRAND_FEATURES[b].features[r] >= 7,
                             2, "medium")
        layer3 == IF t = 0 THEN layer2
                  ELSE Layer(layer2, user_reqs, 1,
                             LAMBDA r : BRAND_FEATURES[t].features[r] >= 8,
                             1, "low")
    IN  IF user_requirements = <<>> \/ user_reqs = <<>> THEN empty
        ELSE [layer3 EXCEPT
                 !.total_score = IF layer3.total_score < 10
                                 THEN layer3.total_score ELSE 10]

\* the places and texts the helper is called with
ReqNames == {<<"n1">>, <<"Starbucks", "(", "x", ")">>, <<"Haidilao", "mall">>,
             <<"Luckin", "hotel">>, <<"KTV", "k">>}

ReqTypes == {<<"cafe">>, <<"mall">>, <<"hotel", "business">>}

ReqTags == {<<>>, <<"parking">>, <<"quiet", "room">>, <<"office", "wifi">>}

RequirementTexts ==
    {<<>>, <<"wifi">>, <<"parking">>, <<"quiet", "meeting">>,
     <<"lot", "cozy", "room", "family">>,
     <<"parking", "quiet", "business", "room", "kids">>}

ReqPlaces ==
    {[name |-> n, type |-> t, tag |-> g, parking_type |-> p] :
        n \in ReqNames, t \in ReqTypes, g \in ReqTags,
        p \in {<<>>, <<"free_parking">>}}

\* a recommender with nothing in progress
ReqInit ==
    /\ Init
    /\ api_key = TRUE
    /\ geocode_cache = <<>>

\* the helper is called on a place with a requirement text
CallRequirementScore(place, user_requirements) ==
    /\ helper.fn = "none"
    /\ helper' = [fn |-> "_calculate_requirement_score", at |-> "called",
                  place |-> place, user_requirements |-> user_requirements]
    /\ UNCHANGED <<api_key, permits, waiters, rq, RecStateOfExecute>>

\* it returns (it has no await)
ReturnRequirementScore ==
    /\ helper.fn = "_calculate_requirement_score"
    /\ helper.at = "called"
    /\ helper' = [fn |-> "_calculate_requirement_score", at |-> "returned",
                  place |-> helper.place,
                  user_requirements |-> helper.user_requirements,
                  result |-> _calculate_requirement_score(
                                 helper.place, helper.user_requirements)]
    /\ UNCHANGED <<api_key, permits, waiters, rq, RecStateOfExecute>>

\* the caller goes on, or the exception leaves the helper
HelperOver ==
    /\ helper.fn # "none"
    /\ helper.at \in {"returned", "raised", "cards"}
    /\ helper' = NoCall
    /\ UNCHANGED <<api_key, permits, waiters, rq, RecStateOfExecute>>

ReqNext ==
    \/ \E p \in ReqPlaces, t \in RequirementTexts : CallRequirementScore(p, t)
    \/ ReturnRequirementScore
    \/ HelperOver

ReqSpec == ReqInit /\ [][ReqNext]_vars

(***************************************************************************)
(* The optional oracle: _llm_smart_ranking and the transport tips of       *)
(* _generate_html_content, each called on its own.  A response's content   *)
(* is a sequence of pieces: a fence (three backquotes, or three and        *)
(* "json") or a payload.                                                   *)
(***************************************************************************)
JsonFence == [fence |-> "json"]

Fence == [fence |-> "plain"]

\* a payload that json.loads does not parse
Garbage == [json |-> "no"]

IsFence(piece) == "fence" \in DOMAIN piece

Num(n) == [num |-> n]

Str(s) == [str |-> s]

IsNumber(v) == "num" \in DOMAIN v

Get(d, field, default) == IF field \in DOMAIN d THEN d[field] ELSE default

\* the index of the first piece of s from position i on that is one, Len(s) + 1
\* for none
RECURSIVE Find(_, _, _)
Find(s, is(_), i) ==
    IF i > Len(s) THEN i
    ELSE IF is(s[i]) THEN i
    ELSE Find(s, is, i + 1)

\* content.split(mark)[1].split(fence)[0]; the text of the json fence holds
\* the text of the plain one
Between(content, mark) ==
    LET a == Find(content, LAMBDA piece : piece = mark, 1)
        b == Find(content, IsFence, a + 1)
    IN  SubSeq(content, a + 1, b - 1)

\* lines 1764-1767 and 1888-1891
StripFences(content) ==
    IF \E i \in 1..Len(content) : content[i] = JsonFence
    THEN Between(content, JsonFence)
    ELSE IF \E i \in 1..Len(content) : content[i] = Fence
    THEN Between(content, Fence)
    ELSE content

\* json.loads: the value, or the exception it raises
json_loads(content) ==
    IF Len(content) = 1 /\ ~IsFence(content[1]) /\ content[1].json # "no"
    THEN [raised |-> "none", value |-> content[1]]
    ELSE [raised |-> "JSONDecodeError"]

\* line 1772: {r["id"]: r for r in llm_rankings}; a later r of an id wins
DictRaises(llm_rankings) ==
    IF llm_rankings.json # "list" THEN "TypeError"
    ELSE IF \E k \in 1..Len(llm_rankings.items) :
                "id" \notin DOMAIN llm_rankings.items[k]
    THEN "KeyError"
    ELSE "none"

HasId(llm_rankings, i) ==
    \E k \in 1..Len(llm_rankings.items) : llm_rankings.items[k].id = i

ResultOf(llm_rankings, i) ==
    LET k == CHOOSE k \in 1..Len(llm_rankings.items) :
                /\ llm_rankings.items[k].id = i
                /\ \A m \in k + 1..Len(llm_rankings.items) :
                      llm_rankings.items[m].id # i
    IN  llm_rankings.items[k]

\* places[:15]
RerankWindow == 15

\* lines 1773-1783 for the place at index i (from 0): the place as the loop
\* leaves it, and whether the product of line 1779 raised
ScoredPlace(place, llm_rankings, i) ==
    IF HasId(llm_rankings, i)
    THEN LET llm_score == Get(ResultOf(llm_rankings, i), "llm_score", Num(0))
         IN  IF IsNumber(llm_score)
             THEN [raised |-> FALSE,
                   place |-> [f \in DOMAIN place \cup {"_llm_score", "_final_score"} |->
                                 IF f = "_llm_score" THEN llm_score
                                 ELSE IF f = "_final_score"
                                 THEN place.score * 4 + llm_score.num * 6
                                 ELSE place[f]]]
             ELSE [raised |-> TRUE,
                   place |-> [f \in DOMAIN place \cup {"_llm_score"} |->
                                 IF f = "_llm_score" THEN llm_score
                                 ELSE place[f]]]
    ELSE [raised |-> FALSE,
          place |-> [f \in DOMAIN place \cup {"_llm_score", "_final_score"} |->
                        IF f = "_llm_score" THEN Num(0)
                        ELSE IF f = "_final_score" THEN place.score * 4
                        ELSE place[f]]]

\* the loop of lines 1773-1783 from index i on; the dicts of places are
\* changed in place, so a raise leaves the earlier ones changed
RECURSIVE ApplyScores(_, _, _)
ApplyScores(places, llm_rankings, i) ==
    IF i >= Len(places) \/ i >= RerankWindow
    THEN [raised |-> "none", places |-> places]
    ELSE LET one == ScoredPlace(places[i + 1], llm_rankings, i)
             now == [places EXCEPT ![i + 1] = one.place]
         IN  IF one.raised THEN [raised |-> "TypeError", places |-> now]
             ELSE ApplyScores(now, llm_rankings, i + 1)

RECURSIVE InsertByKey(_, _, _)
InsertByKey(sorted, key(_), p) ==
    IF sorted = <<>> THEN <<p>>
    ELSE IF key(Head(sorted)) >= key(p)
    THEN <<Head(sorted)>> \o InsertByKey(Tail(sorted), key, p)
    ELSE <<p>> \o sorted

\* list.sort(key=..., reverse=True): descending, equal keys in input order
RECURSIVE SortByKey(_, _)
SortByKey(key(_), s) ==
    IF s = <<>> THEN <<>>
    ELSE InsertByKey(SortByKey(key, SubSeq(s, 1, Len(s) - 1)), key, s[Len(s)])

\* lines 1785-1796
Blend(places, top_n) ==
    LET window == Take(places, RerankWindow)
        places_with_llm ==
            SelectSeq(window, LAMBDA p : Get(p, "_llm_score", Num(0)).num > 0)
        places_without_llm ==
            SelectSeq(window, LAMBDA p : Get(p, "_llm_score", Num(0)).num = 0)
    IN  Take(SortByKey(LAMBDA p : Get(p, "_final_score", 0), places_with_llm)
             \o SortByKey(LAMBDA p : p.score, places_without_llm),
             top_n)

\* the handlers of lines 1798-1803 take every exception but one that is not
\* a JSONDecodeError
Handled_JsonOnly(exception) == exception = "JSONDecodeError"

\* lines 1798-1803: except json.JSONDecodeError, except Exception
Handled(exception) ==
    exception \in {"JSONDecodeError", "TypeError", "KeyError", "APIError",
                   "TimeoutError"}

\* the helper leaves through a handler or the exception leaves it
Leave(h, exception, places, fallback) ==
    IF Handled(exception)
    THEN [h EXCEPT !.at = "returned", !.places = places, !.result = fallback]
    ELSE [h EXCEPT !.at = "raised", !.places = places, !.result = exception]

\* lines 1758-1796 on a response of the oracle
AfterResponse(h, response) ==
    IF response.kind = "none" \/ response.content = <<>>
    THEN [h EXCEPT !.at = "returned", !.result = Take(h.places, h.top_n)]
    ELSE LET loaded == json_loads(StripFences(response.content))
         IN  IF loaded.raised # "none"
             THEN Leave(h, loaded.raised, h.places, Take(h.places, h.top_n))
             ELSE IF DictRaises(loaded.value) # "none"
             THEN Leave(h, DictRaises(loaded.value), h.places,
                        Take(h.places, h.top_n))
             ELSE LET scored == ApplyScores(h.places, loaded.value, 0)
                  IN  IF scored.raised # "none"
                      THEN Leave(h, scored.raised, scored.places,
                                 Take(scored.places, h.top_n))
                      ELSE [h EXCEPT !.at = "returned",
                                     !.places = scored.places,
                                     !.result = Blend(scored.places, h.top_n)]

\* the oracle client's ask runs under a timeout of its own: a call that gets
\* no answer in time raises
AskTimeout == "TimeoutError"

\* what the await of llm.ask can raise
AskExceptions == {"APIError", AskTimeout}

NotAsked == [kind |-> "not asked"]

Raised(exception) == [kind |-> "raised", exception |-> exception]

Item(id, llm_score) == [id |-> id, llm_score |-> llm_score]

Payloads ==
    {[json |-> "list", items |-> <<>>],
     [json |-> "list", items |-> <<Item(1, Num(9))>>],
     [json |-> "list", items |-> <<Item(2, Num(9)), Item(0, Num(1)), Item(2, Num(8))>>],
     [json |-> "list", items |-> <<Item(0, Num(5)), [llm_score |-> Num(7)]>>],
     [json |-> "list", items |-> <<Item(0, Num(9)), Item(1, Str("high"))>>],
     [json |-> "list", items |-> <<[id |-> 1]>>],
     [json |-> "object"]}

Contents ==
    {<<>>, <<Garbage>>, <<JsonFence, Garbage, Fence>>, <<Fence, Fence>>}
    \cup {<<j>> : j \in Payloads}
    \cup {<<JsonFence, j, Fence>> : j \in Payloads}
    \cup {<<Garbage, Fence, j, Fence, Garbage>> : j \in Payloads}
    \cup {<<Garbage, JsonFence, j>> : j \in Payloads}

Responses ==
    {[kind |-> "none", content |-> <<>>]}
    \cup {[kind |-> "message", content |-> c] : c \in Contents}

LlmVenue(n, score) == [name |-> <<n>>, score |-> score]

LlmPlaces ==
    {<<>>,
     <<LlmVenue("n1", 9), LlmVenue("n2", 8)>>,
     <<LlmVenue("n1", 9), LlmVenue("n2", 8), LlmVenue("n3", 7)>>}

TopNs == {2, 8}

\* _llm_smart_ranking is called; llm is whether _get_llm gives a client
CallSmartRanking(places, top_n, llm) ==
    /\ helper.fn = "none"
    /\ helper' = [fn |-> "_llm_smart_ranking", at |-> "called",
                  input |-> places, places |-> places, top_n |-> top_n,
                  llm |-> llm, oracle |-> NotAsked, result |-> <<>>]
    /\ UNCHANGED <<api_key, permits, waiters, rq, RecStateOfExecute>>

\* lines 1701-1704, then up to the await of line 1753
SmartRankingStart ==
    /\ helper.fn = "_llm_smart_ranking"
    /\ helper.at = "called"
    /\ helper' = IF ~helper.llm \/ Len(helper.places) = 0
                 THEN [helper EXCEPT !.at = "returned",
                                     !.result = Take(helper.places, helper.top_n)]
                 ELSE [helper EXCEPT !.at = "asking"]
    /\ UNCHANGED <<api_key, permits, waiters, rq, RecStateOfExecute>>

\* llm.ask returns
AskReturns(response) ==
    /\ helper.fn = "_llm_smart_ranking"
    /\ helper.at = "asking"
    /\ helper' = AfterResponse([helper EXCEPT !.oracle = response], response)
    /\ UNCHANGED <<api_key, permits, waiters, rq, RecStateOfExecute>>

\* llm.ask raises
AskRaises(exception) ==
    /\ helper.fn = "_llm_smart_ranking"
    /\ helper.at = "asking"
    /\ helper' = Leave([helper EXCEPT !.oracle = Raised(exception)], exception,
                       helper.places, Take(helper.places, helper.top_n))
    /\ UNCHANGED <<api_key, permits, waiters, rq, RecStateOfExecute>>


\* _generate_default_transport_tips
DefaultTips == [kind |-> "default"]

\* lines 1877-1906 on a response of the oracle: every exception of the try
\* block is taken by the handler of line 1904
TipsOf(response) ==
    IF response.kind = "none" \/ response.content = <<>> THEN DefaultTips
    ELSE LET loaded == json_loads(StripFences(response.content))
         IN  IF loaded.raised # "none" THEN DefaultTips
             ELSE IF loaded.value.json # "list" THEN DefaultTips
             ELSE [kind |-> "llm", items |-> Take(loaded.value.items, 5)]

\* the handler of the wait_for takes no exception
TimeoutCaught_Never(exception) == FALSE

\* line 2377: except asyncio.TimeoutError
TimeoutCaught(exception) == exception = "TimeoutError"

\* _generate_html_content reaches line 2372
CallTransportTips(llm) ==
    /\ helper.fn = "none"
    /\ helper' = [fn |-> "_generate_html_content", at |-> "wait_for",
                  llm |-> llm, inner |-> "called", oracle |-> NotAsked,
                  timed_out |-> FALSE, result |-> DefaultTips,
                  transport_tips_html |-> [kind |-> "unset"]]
    /\ UNCHANGED <<api_key, permits, waiters, rq, RecStateOfExecute>>

\* _llm_generate_transport_tips, lines 1826-1829, then up to the await
TipsStart ==
    /\ helper.fn = "_generate_html_content"
    /\ helper.at = "wait_for"
    /\ helper.inner = "called"
    /\ helper' = IF ~helper.llm
                 THEN [helper EXCEPT !.inner = "returned", !.result = DefaultTips]
                 ELSE [helper EXCEPT !.inner = "asking"]
    /\ UNCHANGED <<api_key, permits, waiters, rq, RecStateOfExecute>>

\* llm.ask returns
TipsAskReturns(response) ==
    /\ helper.fn = "_generate_html_content"
    /\ helper.at = "wait_for"
    /\ helper.inner = "asking"
    /\ helper' = [helper EXCEPT !.inner = "returned", !.oracle = response,
                                !.result = TipsOf(response)]
    /\ UNCHANGED <<api_key, permits, waiters, rq, RecStateOfExecute>>

\* llm.ask raises: lines 1904-1906
TipsAskRaises(exception) ==
    /\ helper.fn = "_generate_html_content"
    /\ helper.at = "wait_for"
    /\ helper.inner = "asking"
    /\ helper' = [helper EXCEPT !.inner = "returned",
                                !.oracle = Raised(exception),
                                !.result = DefaultTips]
    /\ UNCHANGED <<api_key, permits, waiters, rq, RecStateOfExecute>>

\* the 15 seconds of line 2375 pass while llm.ask is awaited: wait_for
\* cancels the helper and raises TimeoutError in _generate_html_content
WaitForTimeout ==
    /\ helper.fn = "_generate_html_content"
    /\ helper.at = "wait_for"
    /\ helper.inner = "asking"
    /\ helper' = IF TimeoutCaught("TimeoutError")
                 THEN [helper EXCEPT !.inner = "cancelled", !.timed_out = TRUE,
                                     !.at = "cards",
                                     !.transport_tips_html = DefaultTips]
                 ELSE [helper EXCEPT !.inner = "cancelled", !.timed_out = TRUE,
                                     !.at = "raised"]
    /\ UNCHANGED <<api_key, permits, waiters, rq, RecStateOfExecute>>

\* the helper returned in time
WaitForReturns ==
    /\ helper.fn = "_generate_html_content"
    /\ helper.at = "wait_for"
    /\ helper.inner = "returned"
    /\ helper' = [helper EXCEPT !.at = "cards",
                                !.transport_tips_html = helper.result]
    /\ UNCHANGED <<api_key, permits, waiters, rq, RecStateOfExecute>>

LlmNext ==
    \/ \E places \in LlmPlaces, top_n \in TopNs, llm \in BOOLEAN :
          CallSmartRanking(places, top_n, llm)
    \/ SmartRankingStart
    \/ \E response \in Responses : AskReturns(response)
    \/ \E exception \in AskExceptions : AskRaises(exception)
    \/ \E llm \in BOOLEAN : CallTransportTips(llm)
    \/ TipsStart
    \/ \E response \in Responses : TipsAskReturns(response)
    \/ \E exception \in AskExceptions : TipsAskRaises(exception)
    \/ WaitForTimeout
    \/ WaitForReturns
    \/ HelperOver

LlmSpec == ReqInit /\ [][LlmNext]_vars

(***************************************************************************)
(* The API: the three endpoints that produce recommendations, and the      *)
(* semaphore in front of _process_meetspot_request.  Every request is      *)
(* served by a recommender of its own, so the handler's work inside the    *)
(* semaphore is one step here, with the outcomes it can have.              *)
(***************************************************************************)
Entries == {"find_meetspot", "recommend", "find_meetspot_agent"}

\* how _process_meetspot_request can end: its response, the error response
\* of its except clause, an exception raised before its try
Outcomes == {"response", "error_response", "raised"}

RecState == <<RecStateOfExecute, helper>>

\* a semaphore that admits everybody
Locked_Open == FALSE

\* Semaphore.locked(): no permit left, or somebody is waiting already
Locked == permits = 0 \/ waiters # <<>>

\* find_meetspot up to its first await: `async with _request_semaphore`
\* takes a permit at once, or queues the request
FindMeetspot(id, entry) ==
    IF ~Locked
    THEN /\ permits' = permits - 1
         /\ waiters' = waiters
         /\ rq' = [rq EXCEPT ![id].at = "inside", ![id].entry = entry]
    ELSE /\ permits' = permits
         /\ waiters' = Append(waiters, [id |-> id, granted |-> FALSE])
         /\ rq' = [rq EXCEPT ![id].at = "waiting", ![id].entry = entry,
                              ![id].waited = TRUE]

\* a request arrives at an endpoint; /recommend and /api/find_meetspot_agent
\* without a usable agent go on into find_meetspot
Arrive(id, entry, agent_ok) ==
    /\ rq[id].at = "new"
    /\ \A j \in 1..(id - 1) : rq[j].at # "new"
    /\ agent_ok => api_key
    /\ IF entry = "find_meetspot_agent" /\ agent_ok
       THEN /\ rq' = [rq EXCEPT ![id].at = "agent", ![id].entry = entry]
            /\ UNCHANGED <<permits, waiters>>
       ELSE FindMeetspot(id, entry)
    /\ UNCHANGED <<api_key, RecState>>

\* agent.recommend is over: its answer is the response, its exception falls
\* back to find_meetspot
AgentAnswer(id, ok) ==
    /\ rq[id].at = "agent"
    /\ IF ok
       THEN /\ rq' = [rq EXCEPT ![id].at = "response"]
            /\ UNCHANGED <<permits, waiters>>
       ELSE FindMeetspot(id, rq[id].entry)
    /\ UNCHANGED <<api_key, RecState>>

\* Semaphore._wake_up_next on value v: the first waiter not yet woken gets
\* the permit
WakeUpNext(v, ws) ==
    LET sleeping == {i \in 1..Len(ws) : ~ws[i].granted}
        first == CHOOSE i \in sleeping : \A j \in sleeping : i <= j
    IN  IF sleeping = {} \/ v = 0
        THEN [permits |-> v, waiters |-> ws]
        ELSE [permits |-> v - 1, waiters |-> [ws EXCEPT ![first].granted = TRUE]]

\* the exit of `async with` that forgets the permit when the body raised
Release_NotOnRaise(outcome) ==
    IF outcome = "raised"
    THEN [permits |-> permits, waiters |-> waiters]
    ELSE WakeUpNext(permits + 1, waiters)

\* the exit of `async with _request_semaphore`, whatever the body did
Release(outcome) == WakeUpNext(permits + 1, waiters)

\* a woken waiter resumes inside acquire and enters the handler
Wake(id) ==
    /\ rq[id].at = "waiting"
    /\ \E i \in 1..Len(waiters) : waiters[i].id = id /\ waiters[i].granted
    /\ LET rest == SelectSeq(waiters, LAMBDA w : w.id # id)
           after == WakeUpNext(permits, rest)
       IN  /\ permits' = after.permits
           /\ waiters' = after.waiters
    /\ rq' = [rq EXCEPT ![id].at = "inside"]
    /\ UNCHANGED <<api_key, RecState>>

\* _process_meetspot_request is over and the permit goes back
Finish(id, outcome) ==
    /\ rq[id].at = "inside"
    /\ outcome = "response" => api_key
    /\ rq' = [rq EXCEPT ![id].at = outcome]
    /\ permits' = Release(outcome).permits
    /\ waiters' = Release(outcome).waiters
    /\ UNCHANGED <<api_key, RecState>>

ApiNext ==
    \/ \E id \in 1..MaxApiRequests, e \in Entries, a \in BOOLEAN : Arrive(id, e, a)
    \/ \E id \in 1..MaxApiRequests, ok \in BOOLEAN : AgentAnswer(id, ok)
    \/ \E id \in 1..MaxApiRequests : Wake(id)
    \/ \E id \in 1..MaxApiRequests, o \in Outcomes : Finish(id, o)

ApiInit == Init /\ geocode_cache = <<>>

ApiSpec == ApiInit /\ [][ApiNext]_vars

\* the event loop runs every task that is ready, and the work inside the
\* semaphore comes to an end
ApiFairSpec ==
    /\ ApiSpec
    /\ \A id \in 1..MaxApiRequests :
          /\ WF_vars(Wake(id))
          /\ WF_vars(\E o \in Outcomes : Finish(id, o))
          /\ WF_vars(\E ok \in BOOLEAN : AgentAnswer(id, ok))

(***************************************************************************)
(* Properties of the search ladder.                                        *)
(***************************************************************************)
LogRung(r) == {i \in 1..Len(searchLog) : searchLog[i].rung = r}

LastRung == IF searchLog = <<>> THEN 0 ELSE searchLog[Len(searchLog)].rung

Untag(places) == Tag(places, <<>>)

Identifiers(places) == {Identifier(places[i]) : i \in 1..Len(places)}

\* the category a fallback_keyword names: the keyword without the suffix W
CategoryOf(keyword) ==
    IF keyword # <<>> /\ keyword[Len(keyword)] = "W"
    THEN SubSeq(keyword, 1, Len(keyword) - 1)
    ELSE keyword

\* C1 (as claimed): when rung 1 returned no venue and rung 2 returned some,
\* the request returns rung 2's venues with fallback_used = true and the
\* rung-2 keyword as fallback_keyword
C1_Rung2ReportedAsFallback ==
    (/\ pc = "done"
     /\ output.kind = "success"
     /\ \A i \in LogRung(1) : searchLog[i].out = "empty"
     /\ \E i \in LogRung(2) : searchLog[i].out = "nonempty")
    => /\ \E i \in LogRung(2) : output.places = _rank_places(searchLog[i].res, center_point,
                                       req.min_rating, req.max_distance)
       /\ output.fallback_used
       /\ output.fallback_keyword = req.keywords

\* what the code does there: rung 2's venues are returned, unflagged
C1_Rung2ReturnedUnflagged ==
    (/\ pc = "done"
     /\ output.kind = "success"
     /\ \E i \in LogRung(2) : searchLog[i].out = "nonempty")
    => /\ \E i \in LogRung(2) : output.places = _rank_places(searchLog[i].res, center_point,
                                       req.min_rating, req.max_distance)
       /\ ~output.fallback_used
       /\ output.fallback_keyword = None

\* C2 (as claimed): the rungs are visited in order, a later rung's search is
\* issued only after every earlier search returned empty, no search is issued
\* once one has returned places, and exactly the places of the search that
\* returned some are handed to ranking
C2_OneSearchAtATime ==
    /\ \A i, j \in 1..Len(searchLog) :
          i < j => /\ searchLog[i].rung <= searchLog[j].rung
                   /\ (searchLog[i].rung < searchLog[j].rung \/ searchLog[i].rung = 3)
                         => searchLog[i].out = "empty"
    /\ \A j \in 1..Len(searchLog) : searchLog[j].after = 0
    /\ rankInput.called =>
          /\ \E j \in 1..Len(searchLog) : searchLog[j].out = "nonempty"
          /\ \A j \in 1..Len(searchLog) :
                searchLog[j].out = "nonempty"
                   => Untag(rankInput.places) = Untag(searchLog[j].res)

\* C2 (amended): the same ladder, with rung 1 of a multi-keyword request being
\* the fan-out of one search per keyword: all of them are issued, a search of
\* the fan-out that raised counts as empty, and rung 1's result is their
\* merged, de-duplicated places.  A later rung is entered only when every
\* earlier rung's result was empty; once a rung's result is non-empty no
\* further search is issued and exactly that result is handed to ranking.
C2_LadderInOrder ==
    /\ \A i, j \in 1..Len(searchLog) :
          i < j => /\ searchLog[i].rung <= searchLog[j].rung
                   /\ (searchLog[i].rung < searchLog[j].rung \/ searchLog[i].rung = 3)
                         => \/ searchLog[i].out = "empty"
                            \/ /\ searchLog[i].out = "raised"
                               /\ searchLog[i].rung = 1
                               /\ Multi(req)
    /\ \A j \in 1..Len(searchLog) :
          searchLog[j].after > 0 => searchLog[j].rung = 1 /\ Multi(req)
    /\ \A r \in 2..4 : Cardinality(LogRung(r)) <= (IF r = 3 THEN 4 ELSE 1)
    /\ Cardinality(LogRung(1)) <= (IF Multi(req) THEN Len(KeywordsList(req.keywords)) ELSE 1)
    /\ rankInput.called =>
          /\ rankInput.places # <<>>
          /\ IF LastRung = 1 /\ Multi(req)
             THEN /\ Identifiers(rankInput.places) =
                       UNION {Identifiers(searchLog[i].res) : i \in LogRung(1)}
                  /\ Cardinality(Identifiers(rankInput.places)) = Len(rankInput.places)
             ELSE rankInput.places = searchLog[Len(searchLog)].res

\* a multi-keyword request whose two searches both returned places
C2_Witness ==
    /\ rankInput.called
    /\ Multi(req)
    /\ \A i \in LogRung(1) : searchLog[i].out = "nonempty"
    /\ Len(rankInput.places) = 2

\* C3 (as claimed): rung 3 tries R, C, M, F in this order, stops at the first
\* non-empty result, and never searches a category that is one of the
\* keywords the caller asked for
C3_NoRequestedCategoryInRung3 ==
    /\ \A i, j \in LogRung(3) :
          i < j => /\ searchLog[i].out = "empty"
                   /\ \E a, b \in 1..Len(fallback_categories) :
                         /\ a < b
                         /\ fallback_categories[a] = searchLog[i].keywords
                         /\ fallback_categories[b] = searchLog[j].keywords
    /\ \A i \in LogRung(3) :
          \A k \in 1..Len(KeywordsList(req.keywords)) :
             searchLog[i].keywords # KeywordsList(req.keywords)[k]

\* C4: places that came from rung 3 or 4 go to ranking with fallback_used set
\* and fallback_keyword naming the category searched; fallback_keyword is
\* non-null exactly when fallback_used holds; the result text names it
C4_FallbackFlagged ==
    /\ (fallback_keyword # None) <=> fallback_used
    /\ (output.fallback_keyword # None) <=> output.fallback_used
    /\ (rankInput.called /\ LastRung \in {3, 4}) =>
          /\ fallback_used
          /\ CategoryOf(fallback_keyword) = searchLog[Len(searchLog)].keywords
          /\ CategoryOf(fallback_keyword) \in
                {fallback_categories[a] : a \in 1..Len(fallback_categories)}
    /\ (output.kind = "success" /\ LastRung \in {3, 4}) =>
          /\ output.fallback_used
          /\ output.fallback_keyword = fallback_keyword
          /\ output.notice = fallback_keyword
    /\ (output.kind = "success" /\ LastRung \in {1, 2}) => output.notice = None

C4_Witness ==
    /\ output.kind = "success"
    /\ LastRung = 4
    /\ output.notice = WideKeyword

\* C5: when all four rungs came back empty, execute returns the no-venues
\* result with the meeting point; nothing is ranked and no page is made
C5_NoVenuesOutcome ==
    /\ (/\ pc = "done"
        /\ LogRung(4) # {}
        /\ \A i \in 1..Len(searchLog) : searchLog[i].out = "empty")
       => /\ output.kind = "no_venues"
          /\ output.center = center_point
          /\ output.center # NoOutput.center
          /\ ~rankInput.called
          /\ ~pageMade
    /\ output.kind = "no_venues" => LogRung(4) # {} /\ LogRung(2) # {}

C5_Witness ==
    /\ pc = "done"
    /\ output.kind = "no_venues"
    /\ Cardinality(LogRung(3)) = 4

(***************************************************************************)
(* Properties of the geocoding front of execute and of _geocode.           *)
(***************************************************************************)
NotFoundKinds == {"not_found", "not_found_alias"}

ResultKinds == {"no_api_key", "no_coords", "no_venues", "failed", "success"}
                  \cup NotFoundKinds

Unresolved == {i \in 1..Len(geocode_raw_results) : ~geocode_raw_results[i].ok}

\* C6 (as claimed): an address that could not be resolved does not end the
\* request: when some addresses resolved and others did not, the request goes
\* on with the resolved ones instead of returning the not-found text
C6_UnresolvedAddressNotFatal ==
    (/\ pc = "done"
     /\ Unresolved # {}
     /\ Unresolved # 1..Len(geocode_raw_results))
    => output.kind \notin NotFoundKinds

\* C7: execute always ends with one of its ToolResults: the not-found text
\* names the first address that did not resolve, a request none of whose
\* addresses resolved gets it, and a raised search or page step gives the
\* failure text
C7_StructuredResult ==
    /\ pc = "done" => output.kind \in ResultKinds
    /\ pc # "done" => output.kind = "none"
    /\ output.kind \in NotFoundKinds =>
          \E i \in Unresolved :
             /\ output.address = req.locations[i]
             /\ \A j \in Unresolved : i <= j
    /\ (pc = "done" /\ Unresolved # {}) => output.kind \in NotFoundKinds
    /\ (/\ pc = "done"
        /\ ~Multi(req)
        /\ \E i \in 1..Len(searchLog) : searchLog[i].out = "raised")
          => output.kind = "failed"
    /\ (pc = "done" /\ rankInput.called) => output.kind \in {"failed", "success"}

\* a search of a single-keyword request raised and execute returned
C7_Witness ==
    /\ pc = "done"
    /\ output.kind = "failed"
    /\ \E i \in 1..Len(searchLog) : searchLog[i].out = "raised"

\* C8 (as claimed): at most max_retries geocode calls per address, every
\* failed answer of attempt 1 or 2 (non-200, exception, empty result) is
\* followed by another attempt, and None is returned only after the third
C8_NoneOnlyAfterThreeAttempts ==
    \A i \in 1..Len(gtasks) :
       /\ gtasks[i].calls <= max_retries
       /\ (gtasks[i].pc = "done" /\ gtasks[i].last \in {"non200", "raise", "empty"})
             => gtasks[i].calls = max_retries
       /\ (gtasks[i].pc = "done" /\ gtasks[i].calls > 0 /\ ~gtasks[i].result.ok)
             => gtasks[i].calls = max_retries

\* C9: a rate-limited answer on attempt 1 or 2 is retried, after a pause that
\* grows with the attempt and exceeds the pause after any other failure of
\* the same attempt; a later success is returned and cached; _geocode ends
\* on a rate-limited answer only when that answer was the third attempt's
C9_RateLimitRetried ==
    /\ \A a \in 0..(max_retries - 2) :
          /\ Retries("rate_limited", a)
          /\ Backoff("rate_limited", a) > Backoff("non200", a)
          /\ Backoff("rate_limited", a) > Backoff("raise", a)
          /\ Backoff("rate_limited", a) > Backoff("empty", a)
          /\ a > 0 => Backoff("rate_limited", a) > Backoff("rate_limited", a - 1)
    /\ \A i \in 1..Len(gtasks) :
          /\ (gtasks[i].pc = "backoff" /\ gtasks[i].last = "rate_limited")
                => /\ gtasks[i].delay = Backoff("rate_limited", gtasks[i].attempt - 1)
                   /\ gtasks[i].calls < max_retries
          /\ (gtasks[i].pc = "done" /\ gtasks[i].last = "rate_limited")
                => /\ gtasks[i].calls = max_retries
                   /\ ~gtasks[i].result.ok
          /\ (gtasks[i].pc = "done" /\ gtasks[i].rl /\ gtasks[i].last = "ok")
                => /\ gtasks[i].result = GeocodeResult(gtasks[i].address)
                   /\ CacheHas(geocode_cache, gtasks[i].address)
                   /\ CacheGet(geocode_cache, gtasks[i].address) = gtasks[i].result

\* rate limited twice, then resolved by the third attempt
C9_Witness ==
    \E i \in 1..Len(gtasks) :
       /\ gtasks[i].pc = "done"
       /\ gtasks[i].rl
       /\ gtasks[i].last = "ok"
       /\ gtasks[i].calls = max_retries
       /\ gtasks[i].result.ok

\* C10: neither cache ever holds more entries than its maximum, and no key
\* is held twice
C10_CachesBounded ==
    /\ Len(geocode_cache) <= GEOCODE_CACHE_MAX
    /\ Len(poi_cache) <= POI_CACHE_MAX
    /\ Cardinality(CacheKeys(geocode_cache)) = Len(geocode_cache)
    /\ Cardinality(CacheKeys(poi_cache)) = Len(poi_cache)

\* both caches were full, and an insertion into each pushed the oldest out
C10_Witness ==
    /\ Len(geocode_cache) = GEOCODE_CACHE_MAX
    /\ geocode_cache[1] # FillerGeocodeCache(GEOCODE_CACHE_MAX)[1]
    /\ geocode_cache[GEOCODE_CACHE_MAX].key = A2
    /\ Len(poi_cache) = POI_CACHE_MAX
    /\ poi_cache[1] # FillerPoiCache(POI_CACHE_MAX)[1]

(***************************************************************************)
(* Properties of the two caches.                                           *)
(***************************************************************************)
KeySeq(c) == [i \in 1..Len(c) |-> c[i].key]

\* one step of a cache: when a key enters that was not held, it is the only
\* one, it goes last, and a cache at its maximum lost its first entry only
FifoStep(c, c2, max) ==
    LET new == CacheKeys(c2) \ CacheKeys(c)
    IN  new # {} =>
          /\ Cardinality(new) = 1
          /\ c2[Len(c2)].key \in new
          /\ SubSeq(KeySeq(c2), 1, Len(c2) - 1) =
                KeySeq(IF Len(c) = max THEN Tail(c) ELSE c)

\* C11: in one recommender, a new key entering a cache at its maximum removes
\* the entry inserted earliest and no other, in both caches; a step that only reads a cache (a
\* geocode hit, the issue of a search) leaves the order of its keys alone
C11_OldestEvicted ==
    [][pc = "done" \/
       /\ FifoStep(geocode_cache, geocode_cache', GEOCODE_CACHE_MAX)
       /\ FifoStep(poi_cache, poi_cache', POI_CACHE_MAX)
       /\ (\E i \in 1..Len(gtasks) :
              /\ gtasks[i].pc = "sleep"
              /\ i <= Len(gtasks')
              /\ gtasks'[i].pc = "done")
            => KeySeq(geocode_cache') = KeySeq(geocode_cache)
       /\ Len(searchLog') > Len(searchLog)
            => KeySeq(poi_cache') = KeySeq(poi_cache)]_vars

\* both caches were full; the geocode cache was read for "a" and then took
\* "b", the POI cache took a search: each lost its first entry and no other
C11_Witness ==
    /\ KeySeq(geocode_cache) =
          Tail(KeySeq(FillerGeocodeCache(GEOCODE_CACHE_MAX))) \o <<A2>>
    /\ Len(poi_cache) = POI_CACHE_MAX
    /\ SubSeq(KeySeq(poi_cache), 1, POI_CACHE_MAX - 1) =
          Tail(KeySeq(FillerPoiCache(POI_CACHE_MAX)))

\* the last max keys of a history of insertions
Window(h, max) == IF Len(h) > max THEN SubSeq(h, Len(h) - max + 1, Len(h)) ELSE h

\* the orders in which the members of S can have happened
Orders(S) ==
    {f \in [1..Cardinality(S) -> S] :
        \A a, b \in 1..Cardinality(S) : a # b => f[a] # f[b]}

\* a whole mutation of cache c for key k: the check, the eviction, the entry
WholePut(c, max, k) ==
    LET base == IF Len(c) >= max THEN Tail(c) ELSE c
    IN  IF k \in {base[i].key : i \in 1..Len(base)}
        THEN KeySeq(base)
        ELSE Append(KeySeq(base), k)

\* the geocode coroutines that have put their address into the cache c0 held
\* at the start of the gather
GeoInserted(c0) ==
    {i \in 1..Len(gtasks) :
        /\ gtasks[i].pc = "done"
        /\ gtasks[i].result.ok
        /\ gtasks[i].address \notin CacheKeys(c0)}

\* the searches of the fan-out whose answer was put into the cache
PoiInserted(c0) ==
    {i \in 1..Len(stasks) :
        /\ stasks[i].st = "done"
        /\ stasks[i].key \notin CacheKeys(c0)
        /\ stasks[i].key \in CacheKeys(poi_cache)}

\* C12: every change of a cache's keys is one whole mutation (check,
\* eviction, insertion) by one task on the cache as it is at that step, no
\* other task moving in the step; so with concurrent geocode coroutines or
\* concurrent searches in flight the cache is what their mutations give one
\* after the other, in some order, and its keys are never held twice
C12_MutationAtomic ==
    /\ [](pc = "geocoding" =>
            \E fill \in CacheFills :
               LET c0 == FillerGeocodeCache(FillCount(fill, GEOCODE_CACHE_MAX))
               IN  \E f \in Orders(GeoInserted(c0)) :
                      KeySeq(geocode_cache) =
                         Window(KeySeq(c0) \o [a \in 1..Len(f) |-> gtasks[f[a]].address],
                                GEOCODE_CACHE_MAX))
    /\ []((pc = "r1" /\ Multi(req)
            /\ Cardinality({stasks[i].key : i \in 1..Len(stasks)}) = Len(stasks)) =>
            \E fill \in CacheFills :
               LET c0 == FillerPoiCache(FillCount(fill, POI_CACHE_MAX))
               IN  \E f \in Orders(PoiInserted(c0)) :
                      KeySeq(poi_cache) =
                         Window(KeySeq(c0) \o [a \in 1..Len(f) |-> stasks[f[a]].key],
                                POI_CACHE_MAX))
    /\ [][pc = "done" \/
          /\ KeySeq(geocode_cache') # KeySeq(geocode_cache) =>
              \E i \in 1..Len(gtasks) :
                 /\ gtasks[i].pc \in {"poi", "geo"}
                 /\ gtasks'[i].pc = "done"
                 /\ \A j \in 1..Len(gtasks) : j # i => gtasks'[j] = gtasks[j]
                 /\ KeySeq(geocode_cache') =
                       WholePut(geocode_cache, GEOCODE_CACHE_MAX, gtasks[i].address)
          /\ KeySeq(poi_cache') # KeySeq(poi_cache) =>
              \E i \in 1..Len(stasks) :
                 /\ stasks[i].st = "http"
                 /\ stasks'[i].st = "done"
                 /\ \A j \in 1..Len(stasks) : j # i => stasks'[j] = stasks[j]
                 /\ KeySeq(poi_cache') =
                       WholePut(poi_cache, POI_CACHE_MAX, stasks[i].key)]_vars

\* two searches of a fan-out were in flight together; the second was answered
\* first, and both answers went into a cache one below its maximum
C12_Witness ==
    /\ pc = "r1"
    /\ KeySeq(poi_cache) =
          Tail(KeySeq(FillerPoiCache(POI_CACHE_MAX - 1)))
             \o << CacheKey(center_point, <<"R">>, SearchRadius, ""),
                   CacheKey(center_point, <<"M">>, SearchRadius, "") >>

\* C13 (as claimed): the caches outlive the request: what one request left in
\* them is there when the next request is served
C13_CachesOutliveRequest ==
    [][(pc = "done" /\ pc' = "idle")
          => (geocode_cache' = geocode_cache /\ poi_cache' = poi_cache)]_vars

(***************************************************************************)
(* Properties of the admission of requests.                                *)
(***************************************************************************)
Inside == {id \in 1..MaxApiRequests : rq[id].at = "inside"}

Woken == {i \in 1..Len(waiters) : waiters[i].granted}

\* C14: never more than MAX_CONCURRENT_REQUESTS requests are inside
\* _process_meetspot_request, whichever endpoints they came through; every
\* permit is free, held by a request inside, or handed to a woken waiter
C14_AtMostThreeInside ==
    /\ Cardinality(Inside) <= MAX_CONCURRENT_REQUESTS
    /\ permits \in 0..MAX_CONCURRENT_REQUESTS
    /\ permits + Cardinality(Inside) + Cardinality(Woken) = MAX_CONCURRENT_REQUESTS

\* three requests inside, one through each endpoint, and a fourth waiting
C14_Witness ==
    /\ Cardinality(Inside) = MAX_CONCURRENT_REQUESTS
    /\ {rq[id].entry : id \in Inside} = Entries
    /\ \E id \in 1..MaxApiRequests : rq[id].at = "waiting"

\* no request is waiting, woken or inside
Idle == \A id \in 1..MaxApiRequests : rq[id].at \in {"new", "agent"} \cup Outcomes

\* C15: a request that finds the semaphore locked waits, and fails on no
\* account of that; every request that waits is admitted and every admitted
\* request ends with one of the handler's outcomes; the permit comes back on
\* each of them, so that all the permits are free when nobody is left
C15_WaitersServed ==
    /\ \A id \in 1..MaxApiRequests :
          /\ (rq[id].at = "waiting") ~> (rq[id].at = "inside")
          /\ (rq[id].at = "inside") ~> (rq[id].at \in Outcomes)
    /\ [](Idle => permits = MAX_CONCURRENT_REQUESTS /\ waiters = <<>>)
    /\ [](\A id \in 1..MaxApiRequests :
            rq[id].at = "waiting" <=> \E i \in 1..Len(waiters) : waiters[i].id = id)
    /\ [][\A id \in 1..MaxApiRequests :
            /\ rq[id].at = "waiting" => rq'[id].at \in {"waiting", "inside"}
            /\ (rq[id].at \in {"new", "agent"} /\ rq'[id].at \notin {"new", "agent"}
                   /\ Cardinality(Inside) = MAX_CONCURRENT_REQUESTS)
                 => rq'[id].at \in {"waiting", "response"}]_vars

\* a request that had to wait got its response, after the handler of another
\* request had raised, and all the permits are back
C15_Witness ==
    /\ Idle
    /\ permits = MAX_CONCURRENT_REQUESTS
    /\ \E id \in 1..MaxApiRequests : rq[id].waited /\ rq[id].at = "response"
    /\ \E id \in 1..MaxApiRequests : rq[id].at = "raised"

(***************************************************************************)
(* Properties of the multi-keyword search.                                 *)
(***************************************************************************)
Range(seq) == {seq[i] : i \in 1..Len(seq)}

\* the names and coordinates of the places the searches of rung 1 returned
Rung1Returned ==
    UNION {{<<p.name, p.location>> : p \in Range(searchLog[i].res)} : i \in LogRung(1)}

\* C16: a multi-keyword request issues one search per keyword and leaves
\* rung 1 only when all of them are over; a search that raised contributes
\* nothing, the places of the others are all in the merged list, and the
\* request fails on account of no rung-1 search
C16_RaisedKeywordIsEmpty ==
    (Multi(req) /\ searchLog # <<>>) =>
       /\ [i \in 1..Cardinality(LogRung(1)) |-> searchLog[i].keywords]
             = KeywordsList(req.keywords)
       /\ pc # "r1" => \A i \in LogRung(1) : searchLog[i].out # "pending"
       /\ (pc # "r1" /\ LastRung = 1) =>
             {<<p.name, p.location>> : p \in Range(searched_places)} = Rung1Returned
       /\ (pc # "r1" /\ Rung1Returned # {}) => LastRung = 1 /\ searched_places # <<>>
       /\ output.kind = "failed" =>
             \/ pageMade
             \/ \E i \in 1..Len(searchLog) :
                   searchLog[i].rung > 1 /\ searchLog[i].out = "raised"

\* one keyword's search raised, the other's places were ranked and returned
C16_Witness ==
    /\ Multi(req)
    /\ output.kind = "success"
    /\ LastRung = 1
    /\ \E i \in LogRung(1) : searchLog[i].out = "raised"
    /\ \E i \in LogRung(1) : searchLog[i].out = "nonempty"

\* C17: the merged list of a multi-keyword search holds no two venues with
\* the same name and coordinates, whatever their addresses, and every venue
\* in it is marked with the keyword of a search that returned it
C17_MergedListDistinct ==
    (Multi(req) /\ LastRung = 1 /\ pc \in {"rank", "done"}) =>
       /\ \A i, j \in 1..Len(searched_places) :
             (/\ searched_places[i].name = searched_places[j].name
              /\ searched_places[i].location = searched_places[j].location)
                => i = j
       /\ \A i \in 1..Len(searched_places) :
             \E k \in LogRung(1) :
                /\ searchLog[k].keywords = searched_places[i].src
                /\ searched_places[i] \in Range(searchLog[k].res)

\* two keywords returned the same venue under two addresses: it is listed
\* once, with the keyword of the first search, next to the other venue
C17_Witness ==
    /\ Multi(req)
    /\ pc = "rank"
    /\ \E i, j \in LogRung(1) :
          /\ i < j
          /\ Untag(searchLog[i].res) = <<V1>>
          /\ Untag(searchLog[j].res) = <<V1b, V2>>
          /\ searched_places = <<Tag(<<V1>>, searchLog[i].keywords)[1],
                                 Tag(<<V2>>, searchLog[j].keywords)[1]>>

(***************************************************************************)
(* Properties of the pre-resolved coordinates.                             *)
(***************************************************************************)
\* this request geocodes nothing and searches around the centre of coords
NoGeocodingCentreOf(coords) ==
    /\ gtasks = <<>>
    /\ geocode_raw_results = <<>>
    /\ pc \notin {"geocoding", "correct"}
    /\ output.kind \notin NotFoundKinds \cup {"no_coords"}
    /\ searchLog # <<>> => center_point = _calculate_center_point(coords)
    /\ (api_key /\ pc # "idle") => searchLog # <<>>

\* C18 (as claimed): whenever the caller supplies pre-resolved coordinates,
\* no address is geocoded, no city correction happens, and the meeting point
\* is the centre of the supplied coordinates
C18_PreResolvedAlwaysTrusted ==
    req.pre # <<>> => NoGeocodingCentreOf(req.pre)

\* C18 (amended): the same whenever the caller supplies one pre-resolved
\* coordinate for every location
C18_PreResolvedTrustedWhenComplete ==
    (req.pre # <<>> /\ Len(req.pre) = Len(req.locations))
       => NoGeocodingCentreOf(req.pre)

\* a request with a coordinate for each of its two addresses was answered
\* with venues around their midpoint, and a geocode cache that was never used
C18_Witness ==
    /\ Len(req.pre) = 2
    /\ Len(req.locations) = 2
    /\ output.kind = "success"
    /\ center_point = <<116, 40>>
    /\ geocode_cache = <<>>

(***************************************************************************)
(* The city guard.                                                         *)
(***************************************************************************)
\* the items of the answer whose result is not the gather's
Replaced ==
    {i \in 1..Len(updated_results) :
        updated_results[i].result # geocode_raw_results[i]}

C20_HintOnlyStopsMismatch ==
    (pc \notin {"idle", "geocoding"} /\ updated_results # <<>>) =>
        LET orig == geocode_raw_results
            n == Len(orig)
            coords == [i \in 1..n |-> orig[i].location]
            main == MainCity([i \in 1..n |-> orig[i].city])
            hint == _extract_city_hint(req.locations)
            outliers == {i \in 1..n :
                            /\ orig[i].city # main
                            /\ SumDistance(coords, i, coords[i], 1)
                                  > 100000 * (n - 1)}
        IN  /\ (hint # "" /\ hint # main) =>
                  (reresolved = {} /\ Replaced = {})
            /\ (hint # "" /\ hint = main /\ ~CorrectionSkipped(orig, "")) =>
                  \A i \in outliers :
                      (pc # "correct" \/ \E m \in reresolved : i <= m)
                          => i \in reresolved

(***************************************************************************)
(* Address resolution.                                                     *)
(***************************************************************************)
\* C21: a coroutine of the gather has sent its place/text request before it
\* sends any geocode/geo request, and when the locations of the request
\* carry a city hint, the place/text request is limited to that city.
C21_PlaceSearchFirstInHintCity ==
    pc = "geocoding" =>
        \A i \in 1..Len(gtasks) :
            /\ (gtasks[i].calls > 0 \/ gtasks[i].pc \in {"poi", "geo", "backoff"})
                  => gtasks[i].poi_city # NotSent
            /\ (gtasks[i].poi_city # NotSent
                    /\ _extract_city_hint(req.locations) # "")
                  => gtasks[i].poi_city = _extract_city_hint(req.locations)

(***************************************************************************)
(* Ranking.                                                                *)
(***************************************************************************)
\* the places handed to _rank_places that its hard filters let through
Passing ==
    SelectSeq(rankInput.places, LAMBDA x :
        /\ req.min_rating > 0 => x.rating >= req.min_rating
        /\ req.max_distance < 100000 =>
              _calculate_distance(center_point, x.location) <= req.max_distance)

\* execute has returned what _rank_places gave it
Ranked == pc = "done" /\ rankInput.called /\ output.kind = "success"

SourceKeywords(places) == {places[i].src : i \in 1..Len(places)}

\* C22: when the places that pass the filters carry more than one source
\* keyword, every one of these keywords has a place in the list _rank_places
\* returns, however many keywords there are and whatever the scores; and
\* every keyword is allotted two slots at least.
C22_EveryKeywordRepresented ==
    /\ \A n \in 1..Len(RankKeywords) : MaxPerKeyword(n) >= 2
    /\ (Ranked /\ Cardinality(SourceKeywords(Passing)) > 1) =>
          \A k \in SourceKeywords(Passing) :
              \E i \in 1..Len(output.places) : output.places[i].src = k

\* C23: _rank_places returns 6 places of a single-keyword search and 8 of a
\* multi-keyword one whenever that many pass the hard filters, all the
\* passing places when there are fewer, and never more than 6 or 8.
C23_SixOrEightReturned ==
    Ranked =>
        LET n == IF \E i \in 1..Len(Passing) : Passing[i].src # <<>>
                 THEN 8 ELSE 6
        IN  Len(output.places) = IF Len(Passing) < n THEN Len(Passing) ELSE n

\* min(15, 5 * k)
ExpectedPenalty(k) == IF 5 * k < 15 THEN 5 * k ELSE 15

\* the place of the input that a returned place is (names are unique there)
InputOf(place) ==
    CHOOSE j \in 1..Len(Passing) :
        Passing[j].name = place.name /\ Passing[j].location = place.location

\* how many places of its brand come before the j-th passing place when the
\* passing places are in the order of their scores, the earlier first on a tie
EarlierOfBrand(j) ==
    Cardinality({m \in 1..Len(Passing) :
        /\ m # j
        /\ BrandName(Passing[m].name) = BrandName(Passing[j].name)
        /\ \/ Passing[m].score > Passing[j].score
           \/ Passing[m].score = Passing[j].score /\ m < j})

\* how many places of its brand come before the i-th returned place
EarlierReturned(i) ==
    Cardinality({m \in 1..(i - 1) :
        BrandName(output.places[m].name) = BrandName(output.places[i].name)})

\* C24 (as claimed): in the returned list the first place of a brand has
\* penalty 0, the second 5, the one with index k among the returned places
\* of its brand min(15, 5 * k); the penalty is recorded on the place and
\* subtracted from its score
C24_PenaltyByIndexInReturnedList ==
    Ranked =>
        \A i \in 1..Len(output.places) :
            /\ output.places[i].penalty = ExpectedPenalty(EarlierReturned(i))
            /\ output.places[i].score
                  = Passing[InputOf(output.places[i])].score - output.places[i].penalty

\* C24: a returned place has penalty min(15, 5 * k), recorded on it and
\* subtracted from its score, where k is its index among the places of its
\* brand that passed the filters, in the order of their scores; in the list
\* of a single-keyword search k is its index among the returned places of
\* its brand as well, so the first has penalty 0 and the second 5.
C24_PenaltyByIndexAmongPassing ==
    Ranked =>
        \A i \in 1..Len(output.places) :
            LET j == InputOf(output.places[i])
            IN  /\ output.places[i].penalty = ExpectedPenalty(EarlierOfBrand(j))
                /\ output.places[i].score
                      = Passing[j].score - output.places[i].penalty
                /\ output.places[i].src = <<>> =>
                      EarlierReturned(i) = EarlierOfBrand(j)

\* five places of the chain S in a single-keyword list: penalties 0, 5, 10,
\* 15, 15
C24_Witness ==
    /\ Ranked
    /\ Len(KeywordsList(req.keywords)) = 1
    /\ Len(output.places) >= 5
    /\ \A i \in 1..5 : BrandName(output.places[i].name) = <<"S">>
    /\ [i \in 1..5 |-> output.places[i].penalty] = <<0, 5, 10, 15, 15>>


(***************************************************************************)
(* Requirement matching                                                    *)
(***************************************************************************)
ReqReturned ==
    /\ helper.fn = "_calculate_requirement_score"
    /\ helper.at = "returned"

\* the requirement is one the text names
Named(r) ==
    \E i \in 1..Len(requirement_aliases) :
        /\ requirement_aliases[i].req = r
        /\ \E a \in requirement_aliases[i].aliases :
              Contains(helper.user_requirements, a)

Tier1(r) == Named(r) /\ FieldHit(helper.place, r)

Tier2(r) ==
    /\ Named(r)
    /\ BrandEntry(helper.place) # 0
    /\ BRAND_FEATURES[BrandEntry(helper.place)].features[r] >= 7

Tier3(r) ==
    /\ Named(r)
    /\ TypeEntry(helper.place) # 0
    /\ BRAND_FEATURES[TypeEntry(helper.place)].features[r] >= 8

Occurrences(r) ==
    Cardinality({i \in 1..Len(helper.result.matched) :
                    helper.result.matched[i] = r})

\* C25: whenever _calculate_requirement_score has returned, a requirement
\* with a tier-1 field hit has confidence "high"; one matched only through
\* tier 3 has confidence "low", never "high"; a requirement matched by a
\* higher tier keeps that tier's confidence whatever the lower tiers say;
\* and no requirement is in the matched list twice.
C25_TiersAndSingleMatch ==
    ReqReturned =>
        \A r \in Requirements :
            /\ Occurrences(r) <= 1
            /\ Occurrences(r) = 1 <=> r \in DOMAIN helper.result.confidence_map
            /\ Occurrences(r) = 1 <=> (Tier1(r) \/ Tier2(r) \/ Tier3(r))
            /\ Tier1(r) => helper.result.confidence_map[r] = "high"
            /\ (~Tier1(r) /\ Tier2(r)) =>
                   helper.result.confidence_map[r] = "medium"
            /\ (~Tier1(r) /\ ~Tier2(r) /\ Tier3(r)) =>
                   helper.result.confidence_map[r] = "low"

\* a call where one requirement has a tier-1 hit that tier 3 would also
\* match, another a tier-1 hit that tier 2 would also match or a tier-3-only
\* match beside it
C25_Witness ==
    /\ ReqReturned
    /\ \E r \in Requirements : Tier1(r) /\ Tier3(r)
    /\ \E r \in Requirements : ~Tier1(r) /\ ~Tier2(r) /\ Tier3(r)
    /\ Len(helper.result.matched) >= 3


(***************************************************************************)
(* The optional oracle                                                     *)
(***************************************************************************)
RerankOver ==
    /\ helper.fn = "_llm_smart_ranking"
    /\ helper.at \in {"returned", "raised"}

Names(places) == [i \in 1..Len(places) |-> places[i].name]

\* the first top_n venues of the call, in the order they were passed in
RuleBasedCut == Names(Take(helper.input, helper.top_n))

\* the content of the oracle's answer is not the JSON the helper asks for:
\* it does not parse, is no list, has an entry without id or a score that
\* is no number
Malformed(content) ==
    LET loaded == json_loads(StripFences(content))
    IN  \/ loaded.raised # "none"
        \/ loaded.value.json # "list"
        \/ \E k \in 1..Len(loaded.value.items) :
              \/ "id" \notin DOMAIN loaded.value.items[k]
              \/ /\ loaded.value.items[k].id < Len(helper.input)
                 /\ "llm_score" \in DOMAIN loaded.value.items[k]
                 /\ "str" \in DOMAIN loaded.value.items[k].llm_score

OracleFailed ==
    \/ ~helper.llm
    \/ helper.oracle.kind = "raised"
    \/ helper.oracle.kind = "none"
    \/ /\ helper.oracle.kind = "message"
       /\ helper.oracle.content = <<>> \/ Malformed(helper.oracle.content)

\* C26: whenever _llm_smart_ranking is over and the oracle failed (no
\* client, an empty answer, an answer that is not the JSON asked for, an
\* exception or a timeout raised by the call), the helper has returned, not
\* raised, and its result is the first top_n venues in the order they were
\* passed in.
C26_OracleFailureFallsBack ==
    (RerankOver /\ OracleFailed) =>
        /\ helper.at = "returned"
        /\ Names(helper.result) = RuleBasedCut

\* a malformed answer for three venues of which two are to be returned
C26_Witness ==
    /\ RerankOver
    /\ helper.llm
    /\ helper.oracle.kind = "message"
    /\ helper.oracle.content # <<>>
    /\ Malformed(helper.oracle.content)
    /\ Len(helper.input) = 3
    /\ helper.top_n = 2
    /\ Len(helper.result) = 2

TipsOver ==
    /\ helper.fn = "_generate_html_content"
    /\ helper.at \in {"cards", "raised"}

C28_ReturnedByFinalScore ==
    Ranked =>
        \A i, j \in 1..Len(output.places) :
            i < j => output.places[i].score >= output.places[j].score

\* a multi-keyword list in which the penalty moved a place behind one that
\* scored less before the penalty
C28_Witness ==
    /\ Ranked
    /\ \E i \in 1..Len(output.places) : output.places[i].src # <<>>
    /\ \E i, j \in 1..Len(output.places) :
          /\ i < j
          /\ output.places[j].penalty > 0
          /\ output.places[i].score > output.places[j].score
          /\ output.places[i].score
                < output.places[j].score + output.places[j].penalty


(***************************************************************************)
(* Concurrent insertions                                                   *)
(***************************************************************************)
\* a step of one recommender from cache c to cache d keeps the number of
\* entries and drops a key only when it adds one
Grows(c, d) ==
    /\ Len(d) >= Len(c)
    /\ CacheKeys(c) \ CacheKeys(d) # {} => CacheKeys(d) \ CacheKeys(c) # {}

\* C29: in every interleaving of the concurrent _geocode and _search_pois
\* calls of one recommender, an insertion never lowers the number of cached
\* entries and evicts an entry only to make room for a key that is not yet
\* cached, also when two calls that both missed on one key insert it into a
\* full cache one after the other.
C29_InsertionKeepsEntries ==
    [][~(pc = "done" /\ pc' = "idle") =>
          /\ Grows(geocode_cache, geocode_cache')
          /\ Grows(poi_cache, poi_cache')]_vars


(***************************************************************************)
(* The hard filters and the ladder                                         *)
(***************************************************************************)
\* C30: the minimum rating and the maximum distance are applied when the
\* ladder is over: the step that ranks and answers issues no search, leaves
\* fallback_used and fallback_keyword as the ladder set them and reports
\* them, ranks the unfiltered places of the ladder, and answers with a
\* success over the places that pass the filters, a success with no place
\* when the filters remove them all, never the no-venues answer.
C30_FiltersAfterLadder ==
    [][(pc = "rank" /\ pc' = "done" /\ output'.kind # "failed") =>
          /\ searched_places # <<>>
          /\ rankInput'.called
          /\ rankInput'.places = searched_places
          /\ searchLog' = searchLog
          /\ fallback_used' = fallback_used
          /\ fallback_keyword' = fallback_keyword
          /\ output'.kind = "success"
          /\ output'.fallback_used = fallback_used
          /\ output'.fallback_keyword = fallback_keyword
          /\ LET passing == SelectSeq(searched_places, LAMBDA x :
                     /\ req.min_rating > 0 => x.rating >= req.min_rating
                     /\ req.max_distance < 100000 =>
                           _calculate_distance(center_point, x.location)
                              <= req.max_distance)
             IN  /\ \A i \in 1..Len(output'.places) :
                       \E j \in 1..Len(passing) :
                          /\ passing[j].name = output'.places[i].name
                          /\ passing[j].location = output'.places[i].location
                 /\ passing = <<>> <=> output'.places = <<>>]_vars

\* a search found venues, the minimum rating removed them all, and the
\* request was answered with a success without venues
C30_Witness ==
    /\ Ranked
    /\ rankInput.places # <<>>
    /\ req.min_rating > 0
    /\ Passing = <<>>
    /\ output.places = <<>>
    /\ LastRung = 1
    /\ ~fallback_used

=============================================================================
